---- MODULE Spec2Model ----
(***************************************************************************)
(* A model of gm8exe::reader::from_exe (src/gm8exe/src/reader.rs) and of   *)
(* gm8exe::gamedata::find (src/gm8exe/src/gamedata.rs).                    *)
(*                                                                         *)
(* The executable is read through one cursor.  The model draws every value *)
(* the code reads from the buffer at the moment the code reads it (\E in   *)
(* the action that models the read); a read that ends past the buffer is   *)
(* one of the outcomes of every read.  pc names the step of from_exe that  *)
(* runs next, stage the position inside that step.                         *)
(*                                                                         *)
(* Spec is from_exe from its first line, on inputs whose records and       *)
(* lengths come from small sets.  SpecAssets is the asset sections alone   *)
(* (reader.rs lines 484-626), entered at the triggers header with either  *)
(* value of each parameter, on records of every shape.  SpecSettings is   *)
(* the payload header alone (lines 179-410), on settings words of every    *)
(* bit pattern.  All use the same actions; they differ in where they start *)
(* and in the sets the inputs are drawn from.  `calls` is a history        *)
(* variable: what gamedata::find called, on which buffer, with what result.*)
(* SpecFair is Spec with every enabled step eventually taken.              *)
(*                                                                         *)
(* Three small models stand beside the reader: SpecDecompile, the pass of  *)
(* gm8decompiler over broken events (src/gm8decompiler/src/main.rs);       *)
(* SpecSprite, the bounding box of a collision mask                        *)
(* (src/gm8emulator/src/asset/sprite.rs); SpecAudio, the handles of the    *)
(* AudioSystem (src/gm8emulator/src/audio.rs).  Each leaves the variables  *)
(* of the others alone.                                                    *)
(***************************************************************************)
EXTENDS Integers, Sequences, FiniteSets, TLC

VARIABLES
    pc,                 \* the step of from_exe that runs next
    stage,              \* the position inside that step
    strict,             \* from_exe's parameter
    multithread,        \* from_exe's parameter
    result,             \* Running, or what from_exe returned (or that it panicked)
    pos,                \* exe.position()
    budget,             \* records and items the input may still hold (bounds the model)
    buf_len,            \* exe.get_ref().len(), as far as the header checks read it
    starts_mz,          \* whether the buffer opens with "MZ"
    pe_header_loc,      \* the dword at 0x3C
    sig_ok,             \* whether the six bytes at pe_header_loc are PE\0\0\x4C\x01
    section_count,      \* PE sections still to read
    upx0_virtual_len,   \* Option<u32>
    upx1_data,          \* Option<(u32, u32)>
    rsrc_location,      \* Option<u32>
    upx_data,           \* Option<(u32, u32)>
    calls,              \* history: the calls gamedata::find has made, with what they returned
    cfg,                \* the decoder over the settings block: what inflating it gives
    data,               \* the decoder over the help dialog block
    got,                \* assert_ver's local: the version tag just read
    count,              \* the count read from the header of the section
    iter,               \* iterations made by the loop over 0..count
    refs,               \* get_asset_refs' vector
    slots,              \* the collect of get_assets: per record todo / busy / done
    saved_error,        \* the first error a worker stored (collect into Result)
    inflated,           \* indices of refs that inflate() was called on
    game_ver,           \* what gamedata::find returned
    settings,           \* the Settings value
    assets,             \* the asset lists built so far, per section
    included_files,     \* the included files
    garbage_dwords,     \* the count of garbage dwords read at line 399
    written,            \* history: the last pass that wrote into the bytes under exe
    preserve,           \* gm8decompiler: Config::preserve
    fix_events,         \* gm8decompiler: decompile's parameter
    game_assets,        \* gm8decompiler: decompile's `assets`, the objects and timelines
    parsed,             \* history: `assets` as from_exe returned it to decompile
    decompile_pc,       \* gm8decompiler: the step of main / decompile that runs next
    frame,              \* sprite: the arguments of complete_bbox (data, width, height)
    collider,           \* sprite: the Collider complete_bbox returned
    audio_assets,       \* AudioSystem::assets: handle -> kind of stream
    next_asset_handle,  \* AudioSystem::next_asset_handle
    current_mp3,        \* AudioSystem::current_mp3: the handle, when there is one
    wave_sinks,         \* AudioSystem::wave_sinks: the handles that have a sink
    device,             \* AudioSystem::device is Some
    handles,            \* history: the handles the registrations have returned
    returned            \* history: what the last call on the AudioSystem returned

params == <<strict, multithread>>
hdrLocals == <<buf_len, starts_mz, pe_header_loc, sig_ok>>
peLocals ==
    <<hdrLocals, section_count, upx0_virtual_len, upx1_data, rsrc_location, upx_data, calls>>
decoders == <<cfg, data>>
secLocals == <<got, count, iter, refs, slots, saved_error, inflated>>
bundle == <<game_ver, settings, assets, included_files>>

decompilerVars == <<preserve, fix_events, game_assets, parsed, decompile_pc>>
spriteVars == <<frame, collider>>
audioVars ==
    <<audio_assets, next_asset_handle, current_mp3, wave_sinks, device, handles, returned>>
\* The state of the tools around the reader.
toolVars == <<decompilerVars, spriteVars, audioVars>>
\* The state of from_exe.
readerVars ==
    <<pc, stage, result, pos, budget, params, peLocals, decoders, secLocals, bundle, written,
      garbage_dwords>>

vars == <<readerVars, toolVars>>

----------------------------------------------------------------------------
(* Bounds of the model. *)

\* PE sections in the section table.
MaxSections == 2
\* Records (or strings, or extensions) a section header may announce.
MaxCount == 2
\* Records and items of all sections of one input together.
MaxRecords == 2

----------------------------------------------------------------------------
(* Values. *)

\* 2^30: the u32 values are 0 .. 4 * Wrap - 1.  TLC's integers end below 2^32,
\* so a u32 sum or product is computed on quarters: virtual sizes are held in
\* units of 4 bytes, and n * 4 wraps where n reaches Wrap.
Wrap == 1073741824

None == [some |-> FALSE, a |-> 0, b |-> 0]
Some(x, y) == [some |-> TRUE, a |-> x, b |-> y]

\* Result<GameAssets, ReaderError>, and the two ways of not returning one.
Outcome(t, k, e, g) == [tag |-> t, kind |-> k, expected |-> e, got |-> g]
Running == Outcome("Running", "", 0, 0)
Ok == Outcome("Ok", "", 0, 0)
Panic == Outcome("Panic", "", 0, 0)
Err(k) == Outcome("Err", k, 0, 0)
\* ReaderError::AssetError(Error::VersionError { expected, got })
VersionError(e, g) == Outcome("Err", "AssetError(VersionError)", e, g)
\* ReaderError::AssetError(Error::MalformedData)
MalformedData == Err("AssetError(MalformedData)")
\* ReaderError::IO: a read through `?` that came back with an io::Error
IOError == Err("IO")

NoAssets == <<>>
NoSettings == [vsync |-> FALSE, force_cpu_render |-> FALSE,
               zero_uninitialized_vars |-> FALSE, error_on_uninitialized_args |-> FALSE,
               swap_creation_events |-> FALSE]
NoDecoder == [body |-> "", x |-> 0, y |-> 0, trailer |-> "", swap |-> 0, len |-> 0]

----------------------------------------------------------------------------
(* The inputs the PE inspection draws. *)

\* Lengths of the buffer that decide the header checks.
BufLens == {0, 2, 63, 64, 4096}
\* Values of the dword at 0x3C.
PeLocs == {128, 4090, 4091}
\* Values of the optional-header length.
OptLens == {224}
\* The 8-byte section names the code tells apart, and any other name.
SectionNames == {"UPX0", "UPX1", ".rsrc", ".text"}
\* Virtual sizes of a section, in units of 4 bytes: 4096 and 2^32 - 4096 bytes.
VSizes == {1024, 1073740800}
\* Disk addresses of a section.
DiskAddrs == {1024}
\* Where gamedata::find can leave the cursor: the start of the settings block.
PayloadStarts == {8192}

----------------------------------------------------------------------------
(* Leaving from_exe. *)

\* from_exe returns `r` (or unwinds): every local is dropped.  On Ok the lists
\* have been moved into the GameAssets value, which the model keeps in the
\* variables of `bundle`.
Leave(r) ==
    /\ result' = r
    /\ pc' = "returned"
    /\ stage' = ""
    /\ pos' = 0
    /\ budget' = 0
    /\ buf_len' = 0
    /\ starts_mz' = FALSE
    /\ pe_header_loc' = 0
    /\ sig_ok' = FALSE
    /\ section_count' = 0
    /\ upx0_virtual_len' = None
    /\ upx1_data' = None
    /\ rsrc_location' = None
    /\ upx_data' = None
    /\ cfg' = NoDecoder
    /\ data' = NoDecoder
    /\ got' = 0
    /\ count' = 0
    /\ iter' = 0
    /\ refs' = <<>>
    /\ slots' = <<>>
    /\ saved_error' = Running
    /\ inflated' = {}
    /\ IF r = Ok
       THEN UNCHANGED bundle
       ELSE /\ game_ver' = ""
            /\ settings' = NoSettings
            /\ assets' = NoAssets
            /\ included_files' = <<>>
    /\ written' = ""
    /\ garbage_dwords' = 0
    /\ UNCHANGED <<params, toolVars>>

\* A return from from_exe's own lines.
Return(r) == Leave(r) /\ UNCHANGED calls

----------------------------------------------------------------------------
(* The PE inspection: reader.rs lines 79-156. *)

\* Lines 81-83: exe.get_ref().get(0..2).unwrap_or(b"XX") != b"MZ".
CheckMz ==
    /\ result = Running /\ pc = "header" /\ stage = "mz"
    /\ IF buf_len < 2 \/ ~starts_mz
       THEN Return(Err("InvalidExeHeader"))
       ELSE /\ stage' = "pe_loc"
            /\ UNCHANGED <<pc, result, pos, budget, params, toolVars, written, garbage_dwords, peLocals, decoders, secLocals,
                           bundle>>

\* Lines 85-86: the dword at 0x3C, read through the cursor.  What the six
\* bytes it points at are is drawn with it.
ReadPeHeaderLoc ==
    /\ result = Running /\ pc = "header" /\ stage = "pe_loc"
    /\ IF buf_len < 64
       THEN Return(IOError)
       ELSE \E loc \in PeLocs, sig \in BOOLEAN :
              /\ pe_header_loc' = loc
              /\ sig_ok' = (sig /\ loc + 6 <= buf_len)
              /\ pos' = 64
              /\ stage' = "sig"
              /\ UNCHANGED <<pc, result, budget, params, toolVars, written, garbage_dwords, buf_len, starts_mz, section_count,
                             upx0_virtual_len, upx1_data, rsrc_location, upx_data, calls,
                             decoders, secLocals, bundle>>

\* A check of the signature that reads the six bytes through the cursor.
CheckPeSignatureThroughCursor ==
    /\ result = Running /\ pc = "header" /\ stage = "sig"
    /\ IF pe_header_loc + 6 > buf_len
       THEN Return(IOError)
       ELSE IF ~sig_ok
       THEN Return(Err("InvalidExeHeader"))
       ELSE /\ stage' = "count"
            /\ UNCHANGED <<pc, result, pos, budget, params, toolVars, written, garbage_dwords, peLocals, decoders, secLocals,
                           bundle>>

\* Lines 88-91: exe.get_ref().get(pe_header_loc..(pe_header_loc + 6)) against
\* the signature.
CheckPeSignature ==
    /\ result = Running /\ pc = "header" /\ stage = "sig"
    /\ IF pe_header_loc + 6 > buf_len \/ ~sig_ok
       THEN Return(Err("InvalidExeHeader"))
       ELSE /\ stage' = "count"
            /\ UNCHANGED <<pc, result, pos, budget, params, toolVars, written, garbage_dwords, peLocals, decoders, secLocals,
                           bundle>>

\* Lines 93-99: the section count, the length of the optional header, the skip
\* over it.  The header checks are over: their locals are not read again.
ReadSectionCount ==
    /\ result = Running /\ pc = "header" /\ stage = "count"
    /\ \E n \in 0..MaxSections, optional_len \in OptLens :
         IF pe_header_loc + 22 > buf_len
         THEN Return(IOError)
         ELSE /\ pc' = "sections"
              /\ stage' = ""
              /\ section_count' = n
              /\ pos' = pe_header_loc + 22 + optional_len + 2
              /\ buf_len' = 0
              /\ starts_mz' = FALSE
              /\ pe_header_loc' = 0
              /\ sig_ok' = FALSE
              /\ UNCHANGED <<result, budget, params, toolVars, written, garbage_dwords, upx0_virtual_len, upx1_data,
                             rsrc_location, upx_data, calls, decoders, secLocals, bundle>>

\* Lines 108-138: one iteration of the section loop.  `short` is a read that
\* ends past the buffer.
ReadSection ==
    /\ result = Running /\ pc = "sections" /\ section_count > 0
    /\ \E short \in BOOLEAN, sect_name \in SectionNames, virtual_size \in VSizes,
          disk_address \in DiskAddrs :
         IF short
         THEN Return(IOError)
         ELSE /\ upx0_virtual_len' =
                    IF sect_name = "UPX0" THEN Some(virtual_size, 0) ELSE upx0_virtual_len
              /\ upx1_data' =
                    IF sect_name = "UPX1" THEN Some(virtual_size, disk_address) ELSE upx1_data
              /\ rsrc_location' =
                    IF sect_name = ".rsrc" THEN Some(disk_address, 0) ELSE rsrc_location
              /\ pos' = pos + 40
              /\ section_count' = section_count - 1
              /\ UNCHANGED <<pc, stage, result, budget, params, toolVars, written, garbage_dwords, hdrLocals, upx_data, calls,
                             decoders, secLocals, bundle>>

\* Lines 140-149: the icons of .rsrc, when there is one; the cursor is put
\* back.  rsrc::find_icons may fail.
FindIcons ==
    /\ result = Running /\ pc = "sections" /\ section_count = 0
    /\ \E failed \in BOOLEAN :
         IF failed /\ rsrc_location.some
         THEN Return(IOError)
         ELSE /\ pc' = "upx"
              /\ UNCHANGED <<stage, result, pos, budget, params, toolVars, written, garbage_dwords, peLocals, decoders,
                             secLocals, bundle>>

\* Lines 153-156: the value of upx_data.  len0 + len1 is a u32 sum: past 2^32
\* it panics in a build with overflow checks and wraps in one without.
UpxData(len0opt, data1opt) ==
    IF len0opt.some
    THEN IF data1opt.some
         THEN Some((len0opt.a + data1opt.a) % Wrap, data1opt.b)
         ELSE None
    ELSE None

DecideUpx ==
    /\ result = Running /\ pc = "upx"
    /\ \E overflow_checks \in BOOLEAN :
         IF /\ overflow_checks
            /\ upx0_virtual_len.some /\ upx1_data.some
            /\ upx0_virtual_len.a + upx1_data.a >= Wrap
         THEN Return(Panic)
         ELSE /\ upx_data' = UpxData(upx0_virtual_len, upx1_data)
              /\ pc' = "find"
              /\ stage' = "entry"
              /\ UNCHANGED <<result, pos, budget, params, toolVars, written, garbage_dwords, hdrLocals, section_count,
                             upx0_virtual_len, upx1_data, rsrc_location, calls, decoders,
                             secLocals, bundle>>

----------------------------------------------------------------------------
(* gamedata::find: gamedata.rs lines 11-108.  upx::unpack, the antidec probes  *)
(* and decryption, and the gm80 / gm81 checks are helpers whose outcome the    *)
(* model draws; find's own control flow is the code's.                         *)

\* One call of find: the function, the buffer it is handed (exe, the cursor
\* over the original file, or unpacked, the cursor over upx::unpack's output)
\* and what it returned.
Call(f, o, r) == [fn |-> f, on |-> o, ret |-> r]

\* Probes handed the original file whether UPX is in use or not.
ProbedOriginal == "exe"

\* The buffer the antidec probes are handed: lines 26, 29, 40 and 64, 77.
Probed == IF upx_data.some THEN "unpacked" ELSE "exe"

\* The passes of find that write into the buffer they are handed: lines 32, 43,
\* 48 and 69, 82, 86.  Each takes exe, the cursor over the mutable bytes.
Writes(c) ==
    \/ c.fn = "antidec::decrypt" /\ c.ret = "true"
    \/ c.fn = "gm81::decrypt" /\ c.ret = "Ok"

\* The last pass that wrote, once find has also made the calls `cs`.
RECURSIVE WrittenAfter(_, _)
WrittenAfter(w, cs) ==
    IF cs = <<>>
    THEN w
    ELSE WrittenAfter(IF Writes(Head(cs)) THEN Head(cs).fn ELSE w, Tail(cs))

\* find goes on to `next` after the call `c`.
FindStep(next, c) ==
    /\ pc' = "find"
    /\ stage' = next
    /\ calls' = Append(calls, c)
    /\ written' = WrittenAfter(written, <<c>>)
    /\ UNCHANGED <<result, pos, budget, params, toolVars, garbage_dwords, hdrLocals, section_count, upx0_virtual_len,
                   upx1_data, rsrc_location, upx_data, decoders, secLocals, bundle>>

\* find returns Ok(v) after the calls `cs`: from_exe goes on to the settings
\* block.  The locals of the PE inspection are not read again and are dropped
\* here.
Found(v, cs) ==
    /\ game_ver' = v
    /\ calls' = calls \o cs
    /\ pc' = "settings"
    /\ stage' = "len"
    /\ \E p \in PayloadStarts : pos' = p
    /\ section_count' = 0
    /\ upx0_virtual_len' = None
    /\ upx1_data' = None
    /\ rsrc_location' = None
    /\ upx_data' = None
    /\ written' = WrittenAfter(written, cs)
    /\ UNCHANGED <<result, budget, params, toolVars, garbage_dwords, hdrLocals, decoders, secLocals, settings,
                   assets, included_files>>

\* find returns Err(r) after the call `c`, and from_exe returns it.
NotFound(r, c) == Leave(r) /\ calls' = Append(calls, c)

\* Line 24: upx::unpack(exe, max_size, disk_offset)?
Unpack ==
    /\ result = Running /\ pc = "find" /\ stage = "entry" /\ upx_data.some
    /\ \E unpacked \in BOOLEAN :
         IF unpacked
         THEN FindStep("check80", Call("upx::unpack", "exe", "Ok"))
         ELSE NotFound(IOError, Call("upx::unpack", "exe", "Err"))

\* A find that makes the 8.1 probe whatever the 8.0 probe returned.
Check80ThenCheck81 ==
    /\ result = Running /\ pc = "find"
    /\ stage = "check80" \/ (stage = "entry" /\ ~upx_data.some)
    /\ \E r \in {"Some", "None", "Err"} :
         LET c == Call("antidec::check80", Probed, r)
         IN  CASE r = "Some" -> FindStep("check81", c)
               [] r = "None" -> FindStep("check81", c)
               [] r = "Err" -> NotFound(IOError, c)

\* Lines 29 and 64: antidec::check80, on the unpacked buffer or on exe.
Check80 ==
    /\ result = Running /\ pc = "find"
    /\ stage = "check80" \/ (stage = "entry" /\ ~upx_data.some)
    /\ \E r \in {"Some", "None", "Err"} :
         LET c == Call("antidec::check80", Probed, r)
         IN  CASE r = "Some" -> FindStep("decrypt80", c)
               [] r = "None" -> FindStep("check81", c)
               [] r = "Err" -> NotFound(IOError, c)

\* Lines 40 and 77: antidec::check81; lines 59-61 and 97-106 when it finds none.
Check81 ==
    /\ result = Running /\ pc = "find" /\ stage = "check81"
    /\ \E r \in {"Some", "None", "Err"} :
         LET c == Call("antidec::check81", Probed, r)
         IN  CASE r = "Some" -> FindStep("decrypt81", c)
               [] r = "None" -> IF upx_data.some
                                THEN NotFound(Err("UnknownFormat"), c)
                                ELSE FindStep("gm80_check", c)
               [] r = "Err" -> NotFound(IOError, c)

\* Lines 32-39 and 69-76: antidec::decrypt after the 8.0 probe, and the seek
\* over the 16 bytes of the header.
Decrypt80 ==
    /\ result = Running /\ pc = "find" /\ stage = "decrypt80"
    /\ \E r \in {"true", "false", "Err"} :
         LET c == Call("antidec::decrypt", "exe", r)
         IN  CASE r = "true" -> Found("8.0", <<c, Call("seek", "exe", "16")>>)
               [] r = "false" -> NotFound(Err("UnknownFormat"), c)
               [] r = "Err" -> NotFound(IOError, c)

\* A find that does not look at what antidec::decrypt returned.
Decrypt81Unchecked ==
    /\ result = Running /\ pc = "find" /\ stage = "decrypt81"
    /\ \E r \in {"true", "false", "Err"} :
         LET c == Call("antidec::decrypt", "exe", r)
         IN  CASE r = "true" -> FindStep("seek_value", c)
               [] r = "false" -> FindStep("seek_value", c)
               [] r = "Err" -> NotFound(IOError, c)

\* Lines 43 and 82: antidec::decrypt after the 8.1 probe.
Decrypt81 ==
    /\ result = Running /\ pc = "find" /\ stage = "decrypt81"
    /\ \E r \in {"true", "false", "Err"} :
         LET c == Call("antidec::decrypt", "exe", r)
         IN  CASE r = "true" -> FindStep("seek_value", c)
               [] r = "false" -> NotFound(Err("UnknownFormat"), c)
               [] r = "Err" -> NotFound(IOError, c)

\* A find that goes on to the inner decryption whether the magic was found or
\* not.
SeekValueIgnored ==
    /\ result = Running /\ pc = "find" /\ stage = "seek_value"
    /\ \E r \in {"Some", "None", "Err"} :
         LET c == Call("gm81::seek_value", "exe", r)
         IN  CASE r = "Some" -> FindStep("gm81_decrypt", c)
               [] r = "None" -> FindStep("gm81_decrypt", c)
               [] r = "Err" -> NotFound(IOError, c)

\* Lines 45-54 and 83-92: gm81::seek_value(exe, 0xF7140067).
SeekValue ==
    /\ result = Running /\ pc = "find" /\ stage = "seek_value"
    /\ \E r \in {"Some", "None", "Err"} :
         LET c == Call("gm81::seek_value", "exe", r)
         IN  CASE r = "Some" -> FindStep("gm81_decrypt", c)
               [] r = "None" -> NotFound(Err("UnknownFormat"), c)
               [] r = "Err" -> NotFound(IOError, c)

\* A call of gm81::decrypt: its second argument is the XorMethod.
DecryptCall(o, r, xor_method) ==
    [fn |-> "gm81::decrypt", on |-> o, ret |-> r, method |-> xor_method]

\* Lines 48-50 and 86-88: gm81::decrypt(exe, XorMethod::Normal), then 20 bytes on.
Gm81Decrypt ==
    /\ result = Running /\ pc = "find" /\ stage = "gm81_decrypt"
    /\ \E done \in BOOLEAN :
         IF done
         THEN Found("8.1", <<DecryptCall("exe", "Ok", "Normal"), Call("seek", "exe", "20")>>)
         ELSE NotFound(IOError, DecryptCall("exe", "Err", "Normal"))

\* Line 99: gm80::check(exe).
Gm80Check ==
    /\ result = Running /\ pc = "find" /\ stage = "gm80_check"
    /\ \E r \in {"true", "false", "Err"} :
         LET c == Call("gm80::check", "exe", r)
         IN  CASE r = "true" -> Found("8.0", <<c>>)
               [] r = "false" -> FindStep("gm81_check", c)
               [] r = "Err" -> NotFound(IOError, c)

\* A find without the right operand of line 101.
Gm81CheckOnly ==
    /\ result = Running /\ pc = "find" /\ stage = "gm81_check"
    /\ \E r \in {"true", "false", "Err"} :
         LET c == Call("gm81::check", "exe", r)
         IN  CASE r = "true" -> Found("8.1", <<c>>)
               [] r = "false" -> NotFound(Err("UnknownFormat"), c)
               [] r = "Err" -> NotFound(IOError, c)

\* Line 101, left operand: gm81::check(exe).
Gm81Check ==
    /\ result = Running /\ pc = "find" /\ stage = "gm81_check"
    /\ \E r \in {"true", "false", "Err"} :
         LET c == Call("gm81::check", "exe", r)
         IN  CASE r = "true" -> Found("8.1", <<c>>)
               [] r = "false" -> FindStep("gm81_check_lazy", c)
               [] r = "Err" -> NotFound(IOError, c)

\* Line 101, right operand: gm81::check_lazy(exe); lines 103-105 when it fails.
Gm81CheckLazy ==
    /\ result = Running /\ pc = "find" /\ stage = "gm81_check_lazy"
    /\ \E r \in {"true", "false", "Err"} :
         LET c == Call("gm81::check_lazy", "exe", r)
         IN  CASE r = "true" -> Found("8.1", <<c>>)
               [] r = "false" -> NotFound(Err("UnknownFormat"), c)
               [] r = "Err" -> NotFound(IOError, c)

----------------------------------------------------------------------------
(* The payload reader up to the asset sections: reader.rs lines 178-410. *)

\* Outcomes that are not a return value: a slice past the end of the buffer
\* panics; an allocation of a length read from the input may abort.
Abort == Outcome("Abort", "", 0, 0)

\* What inflating a block gives.  body: "corrupt" (inflate fails), "short" (the
\* stream ends before the last field that is always read), "ok".  For the
\* settings block, x and y are the two bit-packed words and trailer what
\* follows zero_uninitialized_vars: "eof", "corrupt", "webgl" (one word, then
\* the end), "both" (two words, the second being swap).
Decoder(b, xw, yw, t, sw) ==
    [body |-> b, x |-> xw, y |-> yw, trailer |-> t, swap |-> sw, len |-> 0]
\* The decoder `d` over a slice announced as `n` bytes.
Over(d, n) == [d EXCEPT !.len = n]
Decoders(XS, YS, SS) ==
    {Decoder("corrupt", 0, 0, "", 0), Decoder("short", 0, 0, "", 0)}
    \cup {Decoder("ok", xw, yw, t, 0) : xw \in XS, yw \in YS, t \in {"eof", "corrupt", "webgl"}}
    \cup {Decoder("ok", xw, yw, "both", sw) : xw \in XS, yw \in YS, sw \in SS}

\* The inputs Spec draws.
SettingsLens == {0, 64}
SettingsDecoders == Decoders({129}, {1}, {0})
HelpDecoders == Decoders({0}, {0}, {0})
DllNameLens == {9}
DllLens == {16}
Gm80Advances == {520}
GarbageCounts == {0, 1073741824}

\* A decode of the first pair from bits 0 and 1, as the second pair is.
VsyncPairLowBits(ver, x) ==
    IF ver = "8.0"
    THEN <<x # 0, TRUE>>
    ELSE <<x % 2 # 0, (x \div 2) % 2 # 0>>

\* Lines 214-217.
VsyncPair(ver, x) ==
    IF ver = "8.0"
    THEN <<x # 0, TRUE>>
    ELSE <<x % 2 # 0, (x \div 128) % 2 # 0>>

\* Lines 237-240.
UninitPair(ver, x) ==
    IF ver = "8.0"
    THEN <<x # 0, FALSE>>
    ELSE <<x % 2 # 0, (x \div 2) % 2 # 0>>

\* Lines 179-182: the length prefix, the seek, the slice and the decoder over
\* it.  The history of find ends where the payload is first read.  `fits` is whether pos + settings_len lies inside the buffer; the slice
\* exe.get_ref()[pos..pos + settings_len] panics when it does not.
ReadSettingsLen(lens, decs) ==
    /\ result = Running /\ pc = "settings" /\ stage = "len"
    /\ \E short \in BOOLEAN, settings_len \in lens, fits \in BOOLEAN, d \in decs :
         IF short
         THEN Leave(IOError) /\ calls' = <<>>
         ELSE IF ~fits /\ settings_len > 0
         THEN Leave(Panic) /\ calls' = <<>>
         ELSE /\ pos' = pos + 4 + settings_len
              /\ cfg' = Over(IF settings_len = 0 THEN Decoder("short", 0, 0, "", 0) ELSE d,
                            settings_len)
              /\ stage' = "fields"
              /\ calls' = <<>>
              /\ UNCHANGED <<pc, result, budget, params, toolVars, written, garbage_dwords, hdrLocals, section_count,
                             upx0_virtual_len, upx1_data, rsrc_location, upx_data, data,
                             secLocals, bundle>>

\* Lines 201-240: every field up to zero_uninitialized_vars, each read with `?`,
\* so that an io::Error of the decoder leaves from_exe as ReaderError::IO.
\* read_data_maybe allocates a length read from the stream.
ReadSettingsFields ==
    /\ result = Running /\ pc = "settings" /\ stage = "fields"
    /\ \E alloc_fails \in BOOLEAN :
         IF cfg.body # "ok"
         THEN Return(IOError)
         ELSE IF alloc_fails
         THEN Return(Abort)
         ELSE /\ settings' = [settings EXCEPT
                    !.vsync = VsyncPair(game_ver, cfg.x)[1],
                    !.force_cpu_render = VsyncPair(game_ver, cfg.x)[2],
                    !.zero_uninitialized_vars = UninitPair(game_ver, cfg.y)[1],
                    !.error_on_uninitialized_args = UninitPair(game_ver, cfg.y)[2]]
              /\ stage' = "trailer"
              /\ UNCHANGED <<pc, result, pos, budget, params, toolVars, written, garbage_dwords, peLocals, decoders, secLocals,
                             game_ver, assets, included_files>>

\* Lines 241-244: the trailing pair.  An Err of the first read gives false; the
\* second read is made with `?`.
ReadSwapCreationEvents ==
    /\ result = Running /\ pc = "settings" /\ stage = "trailer"
    /\ IF cfg.trailer = "webgl"
       THEN Return(IOError)
       ELSE /\ settings' = [settings EXCEPT
                  !.swap_creation_events = (cfg.trailer = "both" /\ cfg.swap # 0)]
            /\ cfg' = NoDecoder
            /\ pc' = "dll"
            /\ stage' = ""
            /\ UNCHANGED <<result, pos, budget, params, toolVars, written, garbage_dwords, peLocals, data, secLocals, game_ver,
                           assets, included_files>>

PayloadFrame ==
    UNCHANGED <<result, budget, params, toolVars, written, garbage_dwords, peLocals, decoders, secLocals, bundle>>

\* Lines 384-393: the name and the bytes of the embedded DLL.
ReadDll ==
    /\ result = Running /\ pc = "dll"
    /\ \E outcome \in {"ok", "short", "alloc"}, name_len \in DllNameLens, dll_len \in DllLens :
         CASE outcome = "short" -> Return(IOError)
           [] outcome = "alloc" -> Return(Abort)
           [] outcome = "ok" ->
                /\ pos' = pos + 4 + name_len + 4 + dll_len
                /\ pc' = "gm80_decrypt"
                /\ stage' = ""
                /\ PayloadFrame

\* Line 396: gm80::decrypt(&mut exe)?
Gm80Decrypt ==
    /\ result = Running /\ pc = "gm80_decrypt"
    /\ \E done \in BOOLEAN, adv \in Gm80Advances :
         IF ~done
         THEN Return(IOError)
         ELSE /\ pos' = pos + adv
              /\ pc' = "garbage"
              /\ stage' = ""
              /\ written' = "gm80::decrypt"
              /\ UNCHANGED <<result, budget, params, toolVars, garbage_dwords, peLocals, decoders, secLocals, bundle>>

\* Line 400: the operand of the seek, (garbage_dwords * 4) as i64, a u32 product.
GarbageSkip(n) == (n % Wrap) * 4

\* Line 399: let garbage_dwords = exe.read_u32::<LE>()?
ReadGarbageDwords(counts) ==
    /\ result = Running /\ pc = "garbage" /\ stage = ""
    /\ \E short \in BOOLEAN, n \in counts :
         IF short
         THEN Return(IOError)
         ELSE /\ garbage_dwords' = n
              /\ pos' = pos + 4
              /\ stage' = "seek"
              /\ UNCHANGED <<pc, result, budget, params, toolVars, written, peLocals, decoders,
                             secLocals, bundle>>

\* Line 400: the seek.  A u32 product past 2^32 panics in a build with overflow
\* checks and wraps in one without.
SkipGarbage ==
    /\ result = Running /\ pc = "garbage" /\ stage = "seek"
    /\ \E overflow_checks \in BOOLEAN :
         IF overflow_checks /\ garbage_dwords >= Wrap
         THEN Return(Panic)
         ELSE /\ pos' = pos + GarbageSkip(garbage_dwords)
              /\ garbage_dwords' = 0
              /\ pc' = "ids"
              /\ stage' = ""
              /\ UNCHANGED <<result, budget, params, toolVars, written, peLocals, decoders, secLocals,
                             bundle>>

\* Lines 404-410: the pro flag, the game id, the four words of the guid.
ReadIds ==
    /\ result = Running /\ pc = "ids"
    /\ \E short \in BOOLEAN :
         IF short
         THEN Return(IOError)
         ELSE /\ pos' = pos + 24
              /\ pc' = "extensions"
              /\ stage' = "tag"
              /\ PayloadFrame

----------------------------------------------------------------------------
(* The sections: reader.rs lines 470-689. *)

\* The sections with the constants read before the triggers.
StepOrderConstantsFirst ==
    <<"extensions", "rewrap", "constants", "triggers", "sounds", "sprites", "backgrounds",
      "paths", "scripts", "fonts", "timelines", "objects", "rooms", "last_ids",
      "included_files", "help_dialog", "library_init", "room_order", "done">>

\* The steps of from_exe after the guid, in the order of the code.
StepOrder ==
    <<"extensions", "rewrap", "triggers", "constants", "sounds", "sprites",
      "backgrounds", "paths", "scripts", "fonts", "timelines", "objects", "rooms",
      "last_ids", "included_files", "help_dialog", "library_init", "room_order",
      "done">>

\* The sections get_assets_ex reads.
AssetSteps ==
    {"triggers", "sounds", "sprites", "backgrounds", "paths", "scripts", "fonts",
     "timelines", "objects", "rooms"}
\* The sections get_asset_refs reads.
RecordSteps == AssetSteps \cup {"included_files"}
\* The sections read item by item from the cursor.
ItemSteps == {"extensions", "constants", "library_init", "room_order"}
\* The sections that open with a version tag.
TaggedSteps == RecordSteps \cup ItemSteps \cup {"help_dialog"}

\* The second argument of each assert_ver!: lines 470, 485, 492, 503, 510, 529,
\* 536, 558, 565, 579, 586, 600, 617, 645, 670, 679.
Expected(step) ==
    CASE step = "extensions" -> 700
      [] step = "library_init" -> 500
      [] step = "room_order" -> 700
      [] OTHER -> 800

IndexOf(step) == CHOOSE i \in 1..Len(StepOrder) : StepOrder[i] = step
NextOf(step) == StepOrder[IndexOf(step) + 1]
FirstStage(step) == IF step \in TaggedSteps THEN "tag" ELSE ""

\* An assert_ver! with the fields of the error exchanged.
AssertVerSwapped(is_strict, expected, got_ver) ==
    IF is_strict
    THEN IF got_ver = expected THEN Running ELSE VersionError(got_ver, expected)
    ELSE Running

\* An assert_ver! that compares whatever `strict` is.
AssertVerAlways(is_strict, expected, got_ver) ==
    IF got_ver = expected THEN Running ELSE VersionError(expected, got_ver)

\* Lines 162-176: the value of assert_ver!; Running stands for Ok(()).
AssertVerResult(is_strict, expected, got_ver) ==
    IF is_strict
    THEN IF got_ver = expected THEN Running ELSE VersionError(expected, got_ver)
    ELSE Running

\* The third argument of assert_ver!: exe.read_u32::<LE>()?
ReadTag(tags) ==
    /\ result = Running /\ pc \in TaggedSteps /\ stage = "tag"
    /\ \E short \in BOOLEAN, v \in tags :
         IF short
         THEN Return(IOError)
         ELSE /\ got' = v
              /\ pos' = pos + 4
              /\ stage' = "check"
              /\ UNCHANGED <<pc, result, budget, params, toolVars, written, garbage_dwords, peLocals, decoders, count, iter,
                             refs, slots, saved_error, inflated, bundle>>

\* assert_ver!(...)? on the tag just read.  `got` lives until the line after.
AssertVer ==
    /\ result = Running /\ pc \in TaggedSteps /\ stage = "check"
    /\ LET r == AssertVerResult(strict, Expected(pc), got)
       IN  IF r # Running
           THEN Return(r)
           ELSE /\ stage' = (IF pc = "help_dialog" THEN "len" ELSE "count")
                /\ UNCHANGED <<pc, result, pos, budget, params, toolVars, written, garbage_dwords, peLocals, decoders,
                               secLocals, bundle>>

\* Lines 413-414, 471-472, 493-494, 671-672, 681-682: the count of a section and
\* the vector allocated for it.
ReadCount ==
    /\ result = Running /\ pc \in RecordSteps \cup ItemSteps /\ stage = "count"
    /\ \E outcome \in {"ok", "short", "alloc"}, n \in 0..MaxCount :
         /\ n <= budget
         /\ CASE outcome = "short" -> Return(IOError)
              [] outcome = "alloc" -> Return(Abort)
              [] outcome = "ok" ->
                   /\ count' = n
                   /\ iter' = 0
                   /\ got' = 0
                   /\ pos' = pos + 4
                   /\ stage' = "loop"
                   /\ refs' = <<>>
                   /\ inflated' = {}
                   /\ UNCHANGED <<pc, result, budget, params, toolVars, written, garbage_dwords, peLocals, decoders, slots,
                                  saved_error, bundle>>

\* Bytes one item of a section takes: an extension (Extension::read), a
\* constant (two pascal strings), an init string, a room index.
ItemSizes(step) ==
    CASE step = "extensions" -> {40}
      [] step = "constants" -> {14}
      [] step = "library_init" -> {7}
      [] step = "room_order" -> {4}

Enter(step) == pc' = step /\ stage' = FirstStage(step)

\* A loop whose iterations read nothing.
ReadItemNoRead ==
    /\ result = Running /\ pc \in ItemSteps /\ stage = "loop"
    /\ IF iter = count
       THEN /\ Enter(NextOf(pc))
            /\ UNCHANGED <<result, pos, budget, params, toolVars, written, garbage_dwords, peLocals,
                           decoders, secLocals, bundle>>
       ELSE /\ iter' = iter + 1
            /\ budget' = budget - 1
            /\ UNCHANGED <<pc, stage, result, pos, params, toolVars, written, garbage_dwords, peLocals,
                           decoders, got, count, refs, slots, saved_error, inflated, bundle>>

\* Lines 473-477, 495-500, 673-675, 683-685: one iteration, or the end of the loop.
ReadItem ==
    /\ result = Running /\ pc \in ItemSteps /\ stage = "loop"
    /\ IF iter = count
       THEN /\ Enter(NextOf(pc))
            /\ UNCHANGED <<result, pos, budget, params, toolVars, written, garbage_dwords, peLocals, decoders, secLocals,
                           bundle>>
       ELSE \E short \in BOOLEAN, size \in ItemSizes(pc) :
              IF short
              THEN Return(IOError)
              ELSE /\ pos' = pos + size
                   /\ iter' = iter + 1
                   /\ budget' = budget - 1
                   /\ UNCHANGED <<pc, stage, result, params, toolVars, written, garbage_dwords, peLocals, decoders, got, count,
                                  refs, slots, saved_error, inflated, bundle>>

\* Lines 480-482: the cursor is rebuilt over the same bytes, immutable, at the
\* same position.
Rewrap ==
    /\ result = Running /\ pc = "rewrap"
    /\ Enter(NextOf(pc))
    /\ UNCHANGED <<result, pos, budget, params, toolVars, written, garbage_dwords, peLocals, decoders, secLocals, bundle>>

\* Lines 613-614.
ReadLastIds ==
    /\ result = Running /\ pc = "last_ids"
    /\ \E short \in BOOLEAN :
         IF short
         THEN Return(IOError)
         ELSE /\ pos' = pos + 8
              /\ Enter(NextOf(pc))
              /\ UNCHANGED <<result, budget, params, toolVars, written, garbage_dwords, peLocals, decoders, secLocals, bundle>>

\* Lines 647-649: the length prefix and the decoder over
\* exe.get_ref().get(pos..pos + len).unwrap_or(&[]).
ReadHelpLen(lens, decs) ==
    /\ result = Running /\ pc = "help_dialog" /\ stage = "len"
    /\ \E short \in BOOLEAN, len \in lens, fits \in BOOLEAN, d \in decs :
         IF short
         THEN Return(IOError)
         ELSE /\ pos' = pos + 4
              /\ data' = Over(IF len = 0 \/ ~fits THEN Decoder("short", 0, 0, "", 0) ELSE d,
                             len)
              /\ got' = 0
              /\ stage' = "fields"
              /\ UNCHANGED <<pc, result, budget, params, toolVars, written, garbage_dwords, peLocals, cfg, count, iter, refs,
                             slots, saved_error, inflated, bundle>>

\* Lines 650-666: the fields, each read with `?`, then the seek over the block.
ReadHelpFields ==
    /\ result = Running /\ pc = "help_dialog" /\ stage = "fields"
    /\ IF data.body # "ok"
       THEN Return(IOError)
       ELSE /\ pos' = pos + data.len
            /\ data' = NoDecoder
            /\ Enter(NextOf(pc))
            /\ UNCHANGED <<result, budget, params, toolVars, written, garbage_dwords, peLocals, cfg, secLocals, bundle>>

\* Line 691: Ok(GameAssets { ... }).
Finish ==
    /\ result = Running /\ pc = "done"
    /\ Return(Ok)

----------------------------------------------------------------------------
(* The records of a section: reader.rs lines 412-455 and 619-626. *)

\* The bytes of one record, as what the code can tell of them: their length,
\* whether they are the literal 78 9C 63 60 60 60 00 00 00 04 00 01, and the
\* u32 words inflating them gives before the stream ends or fails.
Bytes(n, l, w) == [len |-> n, lit |-> l, words |-> w]
\* The literal itself: twelve bytes, the deflation of one zero word.
Sentinel == Bytes(12, TRUE, <<0>>)

\* Every shape of record: the literal; bytes that do not inflate, none or as
\* many as the literal; another deflation of a zero word, as long as the
\* literal; a flag with nothing behind it; assets of two schema versions.
Streams == {<<1>>, <<1, 800, 1>>, <<2, 800, 2>>, <<1, 700, 1>>}
Records ==
    {Sentinel}
    \cup {Bytes(n, FALSE, <<>>) : n \in {0, 12}}
    \cup {Bytes(12, FALSE, <<0>>)}
    \cup {Bytes(20, FALSE, w) : w \in Streams}
\* The records Spec draws.
FewRecords == {Sentinel, Bytes(12, FALSE, <<>>), Bytes(12, FALSE, <<1, 800, 1>>)}

\* inflate(data), line 54: the words the decoder yields.
Inflate(bytes) == bytes.words

\* <T as Asset>::deserialize_exe(data, version, strict) on the rest of a stream:
\* a version tag and a body.  Running stands for Ok.
Deserialize(words, version, is_strict) ==
    IF Len(words) = 0
    THEN [err |-> MalformedData, val |-> None]
    ELSE IF is_strict /\ words[1] # 800
    THEN [err |-> VersionError(800, words[1]), val |-> None]
    ELSE IF Len(words) < 2
    THEN [err |-> MalformedData, val |-> None]
    ELSE [err |-> Running, val |-> Some(words[2], words[1])]

\* A to_asset without the comparison of line 437.
NoSentinel(bytes) == FALSE

\* Line 437: data == [0x78, 0x9C, 0x63, 0x60, 0x60, 0x60, 0x00, 0x00, 0x00, 0x04, 0x00, 0x01]
IsSentinel(bytes) == bytes.len = 12 /\ bytes.lit

\* A to_asset that takes a record for present only when its flag is 1.
ToAssetFlagOne(bytes, version, is_strict) ==
    IF IsSentinel(bytes)
    THEN [err |-> Running, val |-> None, inflates |-> FALSE]
    ELSE LET words == Inflate(bytes)
         IN  IF Len(words) = 0
             THEN [err |-> MalformedData, val |-> None, inflates |-> TRUE]
             ELSE IF words[1] # 1
             THEN [err |-> Running, val |-> None, inflates |-> TRUE]
             ELSE LET r == Deserialize(Tail(words), version, is_strict)
                  IN  [err |-> r.err, val |-> r.val, inflates |-> TRUE]

\* A to_asset that takes a failed read of the flag for an absent record.
ToAssetLenient(bytes, version, is_strict) ==
    IF IsSentinel(bytes)
    THEN [err |-> Running, val |-> None, inflates |-> FALSE]
    ELSE LET words == Inflate(bytes)
         IN  IF Len(words) = 0 \/ words[1] = 0
             THEN [err |-> Running, val |-> None, inflates |-> TRUE]
             ELSE LET r == Deserialize(Tail(words), version, is_strict)
                  IN  [err |-> r.err, val |-> r.val, inflates |-> TRUE]

\* Lines 434-448: to_asset.  `inflates` is whether inflate() is reached.
ToAsset(bytes, version, is_strict) ==
    IF IsSentinel(bytes)
    THEN [err |-> Running, val |-> None, inflates |-> FALSE]
    ELSE LET words == Inflate(bytes)
         IN  IF Len(words) = 0
             THEN [err |-> MalformedData, val |-> None, inflates |-> TRUE]
             ELSE IF words[1] = 0
             THEN [err |-> Running, val |-> None, inflates |-> TRUE]
             ELSE LET r == Deserialize(Tail(words), version, is_strict)
                  IN  [err |-> r.err, val |-> r.val, inflates |-> TRUE]

\* Lines 621-625: the closure of the included files: inflate, then
\* IncludedFile::deserialize_exe on the whole stream.
ToIncludedFile(bytes, version, is_strict) ==
    LET r == Deserialize(Inflate(bytes), version, is_strict)
    IN  [err |-> r.err, val |-> r.val, inflates |-> TRUE]

\* A framing that reads the length prefix and leaves the cursor at the record.
AfterLengthPrefix(p, len) == p + 4

\* Lines 416 and 420: the cursor after the length prefix read at `p` and the
\* seek over the `len` bytes of the record.
AfterRecord(p, len) == p + 4 + len

\* Lines 415-421: one iteration of get_asset_refs, or the end of its loop.
\* `fits` is whether pos + len lies inside the buffer: &data[pos..pos + len]
\* panics when it does not.
GetAssetRef(records) ==
    /\ result = Running /\ pc \in RecordSteps /\ stage = "loop"
    /\ IF iter = count
       THEN /\ stage' = "map"
            /\ slots' = [i \in 1..Len(refs) |-> [st |-> "todo", val |-> None]]
            /\ UNCHANGED <<pc, result, pos, budget, params, toolVars, written, garbage_dwords, peLocals, decoders, got, count,
                           iter, refs, saved_error, inflated, bundle>>
       ELSE \E short \in BOOLEAN, bytes \in records, fits \in BOOLEAN :
              IF short
              THEN Return(IOError)
              ELSE IF ~fits /\ bytes.len > 0
              THEN Return(Panic)
              ELSE /\ refs' = Append(refs, [at |-> pos + 4, bytes |-> bytes])
                   /\ pos' = AfterRecord(pos, bytes.len)
                   /\ iter' = iter + 1
                   /\ budget' = budget - 1
                   /\ UNCHANGED <<pc, stage, result, params, toolVars, written, garbage_dwords, peLocals, decoders, got, count,
                                  slots, saved_error, inflated, bundle>>

MapFrame ==
    UNCHANGED <<pc, stage, result, pos, budget, params, toolVars, written, garbage_dwords, peLocals, decoders, got, count,
                iter, refs, bundle>>

\* A closure handed the record after the one at its index.
ItemOfNeighbour(i) ==
    LET j == (i % Len(refs)) + 1
    IN  IF pc = "included_files"
        THEN ToIncludedFile(refs[j].bytes, game_ver, strict)
        ELSE ToAsset(refs[j].bytes, game_ver, strict)

\* What the closure of the section that is running gives for record i.
Item(i) ==
    IF pc = "included_files"
    THEN ToIncludedFile(refs[i].bytes, game_ver, strict)
    ELSE ToAsset(refs[i].bytes, game_ver, strict)

\* A closure has returned for record i: collect into Result keeps an Ok value
\* at the record's index and the first Err that is stored.
Stored(i, r) ==
    /\ slots' = [slots EXCEPT ![i] =
                    IF r.err = Running
                    THEN [st |-> "done", val |-> r.val]
                    ELSE [st |-> "failed", val |-> None]]
    /\ saved_error' = (IF r.err # Running /\ saved_error = Running THEN r.err ELSE saved_error)

\* A sequential map that takes the records in any order.
SeqStepUnordered ==
    /\ result = Running /\ pc \in RecordSteps /\ stage = "map"
    /\ ~multithread \/ pc = "included_files"
    /\ saved_error = Running
    /\ \E i \in 1..Len(refs) :
         /\ slots[i].st = "todo"
         /\ inflated' = (IF Item(i).inflates THEN inflated \cup {i} ELSE inflated)
         /\ Stored(i, Item(i))
         /\ MapFrame

\* Lines 453 and 619-626: the sequential map: the records in order, one whole
\* closure at a time, none after the first Err.
SeqStep ==
    /\ result = Running /\ pc \in RecordSteps /\ stage = "map"
    /\ ~multithread \/ pc = "included_files"
    /\ saved_error = Running
    /\ \E i \in 1..Len(refs) :
         /\ slots[i].st = "todo"
         /\ \A j \in 1..(i - 1) : slots[j].st = "done"
         /\ inflated' = (IF Item(i).inflates THEN inflated \cup {i} ELSE inflated)
         /\ Stored(i, Item(i))
         /\ MapFrame

\* Line 451: a worker of the pool takes a record nobody has taken, unless an
\* Err has been stored.
WorkerStart ==
    /\ result = Running /\ pc \in AssetSteps /\ stage = "map" /\ multithread
    /\ saved_error = Running
    /\ \E i \in 1..Len(refs) :
         /\ slots[i].st = "todo"
         /\ slots' = [slots EXCEPT ![i].st = "busy"]
         /\ inflated' = (IF Item(i).inflates THEN inflated \cup {i} ELSE inflated)
         /\ UNCHANGED saved_error
         /\ MapFrame

\* Line 451: the closure of a worker returns.
WorkerFinish ==
    /\ result = Running /\ pc \in AssetSteps /\ stage = "map" /\ multithread
    /\ \E i \in 1..Len(refs) :
         /\ slots[i].st = "busy"
         /\ Stored(i, Item(i))
         /\ UNCHANGED inflated
         /\ MapFrame

\* The whole of line 453 as a fold: .iter().map(to_asset).collect() into a
\* Result: the values in order, or the Err of the first record that has one.
RECURSIVE SeqCollect(_, _, _)
SeqCollect(rs, version, is_strict) ==
    IF rs = <<>>
    THEN [err |-> Running, list |-> <<>>]
    ELSE LET r == ToAsset(Head(rs).bytes, version, is_strict)
             rest == SeqCollect(Tail(rs), version, is_strict)
         IN  IF r.err # Running
             THEN [err |-> r.err, list |-> <<>>]
             ELSE IF rest.err # Running
             THEN [err |-> rest.err, list |-> <<>>]
             ELSE [err |-> Running, list |-> <<r.val>> \o rest.list]

\* A collect that gives the values last record first.
CollectedReversed(ss) == [i \in 1..Len(ss) |-> ss[Len(ss) + 1 - i].val]

\* A collect that leaves the absent records out.
CollectedPresent(ss) ==
    LET present == SelectSeq(ss, LAMBDA x : x.val.some)
    IN  [i \in 1..Len(present) |-> present[i].val]

\* The list a finished collect gives: the values in the order of the records.
Collected(ss) == [i \in 1..Len(ss) |-> ss[i].val]

\* A collect that returns a stored Err without waiting for the closures that
\* are still running.
JoinEarly ==
    /\ result = Running /\ pc \in RecordSteps /\ stage = "map"
    /\ IF saved_error # Running
       THEN Return(saved_error)
       ELSE /\ \A i \in 1..Len(slots) : slots[i].st = "done"
            /\ IF pc = "included_files"
               THEN included_files' = Collected(slots) /\ UNCHANGED assets
               ELSE assets' = (pc :> Collected(slots)) @@ assets /\ UNCHANGED included_files
            /\ refs' = <<>>
            /\ slots' = <<>>
            /\ inflated' = {}
            /\ Enter(NextOf(pc))
            /\ UNCHANGED <<result, pos, budget, params, toolVars, written, garbage_dwords, peLocals, decoders, got, count,
                           iter, saved_error, game_ver, settings>>

\* Lines 451, 453, 626: the collect is over: no closure runs, and either every
\* record is done or an Err is stored, which `?` returns.
Join ==
    /\ result = Running /\ pc \in RecordSteps /\ stage = "map"
    /\ \A i \in 1..Len(slots) : slots[i].st # "busy"
    /\ IF saved_error # Running
       THEN Return(saved_error)
       ELSE /\ \A i \in 1..Len(slots) : slots[i].st = "done"
            /\ IF pc = "included_files"
               THEN included_files' = Collected(slots) /\ UNCHANGED assets
               ELSE assets' = (pc :> Collected(slots)) @@ assets /\ UNCHANGED included_files
            /\ refs' = <<>>
            /\ slots' = <<>>
            /\ inflated' = {}
            /\ Enter(NextOf(pc))
            /\ UNCHANGED <<result, pos, budget, params, toolVars, written, garbage_dwords, peLocals, decoders, got, count,
                           iter, saved_error, game_ver, settings>>

----------------------------------------------------------------------------
(* gm8decompiler: the pass over broken events, main.rs lines 107-178. *)

\* CodeActions of the objects and the timelines of one game together.
MaxActions == 2

\* A gm8exe::asset::CodeAction, as far as fix_event reads or writes it.
CodeActions ==
    [id : {603, 5}, lib_id : {1, 2}, action_kind : {7, 1}, execution_type : {2, 1}]
ActionLists(n) == UNION {[1..k -> CodeActions] : k \in 0..n}

\* A game of two object slots, the first absent, and two timeline slots, the
\* second absent.  The object has no event of type 0 and one event of type 1;
\* the timeline has one moment.
Game(object_actions, moment_actions) ==
    [objects |-> <<[some |-> FALSE, events |-> <<>>],
                   [some |-> TRUE, events |-> << <<>>, << <<0, object_actions>> >> >>]>>,
     timelines |-> <<[some |-> TRUE, moments |-> << <<5, moment_actions>> >>],
                     [some |-> FALSE, moments |-> <<>>]>>]
NoGame == [objects |-> <<>>, timelines |-> <<>>]
\* The actions of a game: of its present objects' events and of its present
\* timelines' moments.
ObjectActions(g) == g.objects[2].events[2][1][2]
MomentActions(g) == g.timelines[1].moments[1][2]

\* A fix_event that rewrites every code block, whatever its execution type.
FixEventOfAnyExecution(ev) ==
    IF ev.action_kind = 7
    THEN [ev EXCEPT !.id = 603, !.lib_id = 1]
    ELSE ev

\* Lines 153-160: fix_event.
FixEvent(ev) ==
    IF ev.action_kind = 7 /\ ev.execution_type = 2
    THEN [ev EXCEPT !.id = 603, !.lib_id = 1]
    ELSE ev

\* .for_each(|ev| fix_event(ev)) over one Vec<CodeAction>.
FixActions(acts) == [k \in DOMAIN acts |-> FixEvent(acts[k])]
\* One (u32, Vec<CodeAction>) of an event list or of the moments.
FixEntry(entry) == <<entry[1], FixActions(entry[2])>>

\* Lines 163-169: the objects: iter_mut().flatten() skips the absent slots,
\* events.iter_mut().flatten() runs over the events of every type.
FixObjects(objs) ==
    [n \in DOMAIN objs |->
        IF objs[n].some
        THEN [objs[n] EXCEPT !.events =
                 [ty \in DOMAIN @ |-> [e \in DOMAIN @[ty] |-> FixEntry(@[ty][e])]]]
        ELSE objs[n]]

\* Lines 171-177: the timelines.
FixTimelines(tls) ==
    [n \in DOMAIN tls |->
        IF tls[n].some
        THEN [tls[n] EXCEPT !.moments = [m \in DOMAIN @ |-> FixEntry(@[m])]]
        ELSE tls[n]]

\* Lines 162-178: the whole pass.
FixPass(g) == [objects |-> FixObjects(g.objects), timelines |-> FixTimelines(g.timelines)]

\* Lines 107-113 and 125-128: main calls decompile with fix_events =
\* !args.preserve, and from_exe returns the assets.
Decompile ==
    /\ decompile_pc = "main"
    /\ \E oa \in ActionLists(MaxActions) :
         \E ma \in ActionLists(MaxActions - Len(oa)) :
           /\ game_assets' = Game(oa, ma)
           /\ parsed' = Game(oa, ma)
    /\ fix_events' = ~preserve
    /\ decompile_pc' = "fix_events"
    /\ UNCHANGED <<readerVars, preserve, spriteVars, audioVars>>

\* Lines 162-178: if fix_events { ... }.
FixEvents ==
    /\ decompile_pc = "fix_events"
    /\ game_assets' = (IF fix_events THEN FixPass(game_assets) ELSE game_assets)
    /\ decompile_pc' = "write"
    /\ UNCHANGED <<readerVars, preserve, fix_events, parsed, spriteVars, audioVars>>

----------------------------------------------------------------------------
(* gm8emulator: the bounding box of a collision mask, sprite.rs lines 104-151. *)

\* Width and height of a frame.
MaxSide == 3

NoCollider ==
    [width |-> 0, height |-> 0, bbox_left |-> 0, bbox_right |-> 0, bbox_top |-> 0,
     bbox_bottom |-> 0, data |-> <<>>]

NoFrame == [width |-> 0, height |-> 0, data |-> <<>>]

\* The frames: a width, a height and the collision data, row after row.
Frames ==
    UNION {{[width |-> fw, height |-> fh, data |-> d] : d \in [1..(fw * fh) -> BOOLEAN]} :
              fw \in 1..MaxSide, fh \in 1..MaxSide}

\* Line 141: the closure |x, y| data[(y * width + x) as usize].
Coll(f, x, y) == f.data[(y * f.width + x) + 1]

Least(S) == CHOOSE v \in S : \A u \in S : v <= u
Greatest(S) == CHOOSE v \in S : \A u \in S : v >= u

\* A make_bbox that takes the top from the leftmost column alone.
MakeBboxOfLeftColumn(f, frame_width, frame_height) ==
    LET found1 == {x \in 0..(frame_width - 1) : \E y \in 0..(frame_height - 1) : Coll(f, x, y)}
        left == IF found1 = {} THEN frame_width - 1 ELSE Least(found1)
        top == IF found1 = {} THEN frame_height - 1
               ELSE Least({y \in 0..(frame_height - 1) : Coll(f, left, y)})
        found3 == {x \in left..(frame_width - 1) : \E y \in top..(frame_height - 1) : Coll(f, x, y)}
        right == IF found3 = {} THEN 0 ELSE Greatest(found3)
        bottom3 == IF found3 = {} THEN 0
                   ELSE Greatest({y \in top..(frame_height - 1) : Coll(f, right, y)})
        found4 == {y \in (bottom3 + 1)..(frame_height - 1) : \E x \in left..right : Coll(f, x, y)}
        bottom == IF found4 = {} THEN bottom3 ELSE Greatest(found4)
    IN  [left |-> left, right |-> right, top |-> top, bottom |-> bottom]

\* Lines 106-137: make_bbox, loop by loop.  found1: the columns the first loop
\* can stop at; found2: the rows above `top` with a pixel right of `left`;
\* found3: the columns the third loop can stop at; found4: the rows below
\* `bottom` with a pixel between left and right.
MakeBbox(f, frame_width, frame_height) ==
    LET found1 == {x \in 0..(frame_width - 1) : \E y \in 0..(frame_height - 1) : Coll(f, x, y)}
        left == IF found1 = {} THEN frame_width - 1 ELSE Least(found1)
        top1 == IF found1 = {} THEN frame_height - 1
                ELSE Least({y \in 0..(frame_height - 1) : Coll(f, left, y)})
        found2 == {y \in 0..(top1 - 1) : \E x \in (left + 1)..(frame_width - 1) : Coll(f, x, y)}
        top == IF found2 = {} THEN top1 ELSE Least(found2)
        found3 == {x \in left..(frame_width - 1) : \E y \in top..(frame_height - 1) : Coll(f, x, y)}
        right == IF found3 = {} THEN 0 ELSE Greatest(found3)
        bottom3 == IF found3 = {} THEN 0
                   ELSE Greatest({y \in top..(frame_height - 1) : Coll(f, right, y)})
        found4 == {y \in (bottom3 + 1)..(frame_height - 1) : \E x \in left..right : Coll(f, x, y)}
        bottom == IF found4 = {} THEN bottom3 ELSE Greatest(found4)
    IN  [left |-> left, right |-> right, top |-> top, bottom |-> bottom]

\* Lines 140-151: complete_bbox.
CompleteBbox ==
    /\ collider = NoCollider
    /\ LET bbox == MakeBbox(frame, frame.width, frame.height)
       IN  collider' = [width |-> frame.width, height |-> frame.height,
                        bbox_left |-> bbox.left, bbox_right |-> bbox.right,
                        bbox_top |-> bbox.top, bbox_bottom |-> bbox.bottom,
                        data |-> frame.data]
    /\ UNCHANGED <<readerVars, decompilerVars, frame, audioVars>>

----------------------------------------------------------------------------
(* gm8emulator: the handles of the AudioSystem, audio.rs lines 7-17, 320-375. *)

\* Successful registrations on one AudioSystem.
MaxRegistrations == 3

NoHandle == -1

\* A registration that takes the handle before it looks at the stream.
RegisterCountingFailures(kind) ==
    /\ next_asset_handle < MaxRegistrations
    /\ \E stream_ok \in BOOLEAN :
         /\ next_asset_handle' = next_asset_handle + 1
         /\ IF stream_ok
            THEN /\ audio_assets' = (next_asset_handle :> kind) @@ audio_assets
                 /\ handles' = Append(handles, next_asset_handle)
                 /\ returned' = [call |-> "register", handle |-> next_asset_handle]
            ELSE /\ returned' = [call |-> "register", handle |-> NoHandle]
                 /\ UNCHANGED <<audio_assets, handles>>
    /\ UNCHANGED <<readerVars, decompilerVars, spriteVars, current_mp3, wave_sinks, device>>

\* Lines 361-375: register_mp3 and register_wav: the stream is built with `?`,
\* so that a None leaves before the handle is taken.
Register(kind) ==
    /\ next_asset_handle < MaxRegistrations
    /\ \E stream_ok \in BOOLEAN :
         IF stream_ok
         THEN /\ next_asset_handle' = next_asset_handle + 1
              /\ audio_assets' = (next_asset_handle :> kind) @@ audio_assets
              /\ handles' = Append(handles, next_asset_handle)
              /\ returned' = [call |-> "register", handle |-> next_asset_handle]
         ELSE /\ returned' = [call |-> "register", handle |-> NoHandle]
              /\ UNCHANGED <<audio_assets, next_asset_handle, handles>>
    /\ UNCHANGED <<readerVars, decompilerVars, spriteVars, current_mp3, wave_sinks, device>>

RegisterMp3 == Register("MP3")
RegisterWav == Register("Wave")

\* Lines 330-359: play, on any handle, registered or not.
Play ==
    /\ \E sound \in 0..MaxRegistrations :
         IF ~device \/ sound \notin DOMAIN audio_assets
         THEN UNCHANGED <<current_mp3, wave_sinks>>
         ELSE IF audio_assets[sound] = "MP3"
         THEN current_mp3' = sound /\ UNCHANGED wave_sinks
         ELSE wave_sinks' = wave_sinks \cup {sound} /\ UNCHANGED current_mp3
    /\ returned' = [call |-> "play", handle |-> NoHandle]
    /\ UNCHANGED <<readerVars, decompilerVars, spriteVars, audio_assets, next_asset_handle,
                   device, handles>>

----------------------------------------------------------------------------
(* The states in which a part of the model is not running. *)

\* from_exe has returned Ok and its locals are gone.
ReaderIdle ==
    /\ pc = "returned" /\ stage = "" /\ result = Ok /\ pos = 0 /\ budget = 0
    /\ strict = FALSE /\ multithread = FALSE
    /\ buf_len = 0 /\ starts_mz = FALSE /\ pe_header_loc = 0 /\ sig_ok = FALSE
    /\ section_count = 0 /\ upx0_virtual_len = None /\ upx1_data = None
    /\ rsrc_location = None /\ upx_data = None /\ calls = <<>>
    /\ cfg = NoDecoder /\ data = NoDecoder
    /\ got = 0 /\ count = 0 /\ iter = 0 /\ refs = <<>> /\ slots = <<>>
    /\ saved_error = Running /\ inflated = {}
    /\ game_ver = "8.0" /\ settings = NoSettings /\ assets = NoAssets
    /\ included_files = <<>> /\ written = "" /\ garbage_dwords = 0

DecompilerIdle ==
    /\ preserve = FALSE /\ fix_events = FALSE /\ game_assets = NoGame /\ parsed = NoGame
    /\ decompile_pc = ""
SpriteIdle == frame = NoFrame /\ collider = NoCollider
AudioIdle ==
    /\ audio_assets = <<>> /\ next_asset_handle = 0 /\ current_mp3 = NoHandle
    /\ wave_sinks = {} /\ device = FALSE /\ handles = <<>>
    /\ returned = [call |-> "", handle |-> NoHandle]
ToolsIdle == DecompilerIdle /\ SpriteIdle /\ AudioIdle

----------------------------------------------------------------------------
(* The specifications. *)

\* The inputs Spec draws for the sections.
TagValues == {500, 700, 800}
HelpLens == {0, 32}

\* from_exe is entered: line 77.
Init ==
    /\ pc = "header"
    /\ stage = "mz"
    /\ buf_len \in BufLens
    /\ starts_mz \in BOOLEAN
    /\ starts_mz => buf_len >= 2
    /\ pe_header_loc = 0
    /\ sig_ok = FALSE
    /\ strict \in BOOLEAN
    /\ multithread \in BOOLEAN
    /\ result = Running
    /\ pos = 0
    /\ budget = MaxRecords
    /\ section_count = 0
    /\ upx0_virtual_len = None
    /\ upx1_data = None
    /\ rsrc_location = None
    /\ upx_data = None
    /\ calls = <<>>
    /\ cfg = NoDecoder
    /\ data = NoDecoder
    /\ got = 0
    /\ count = 0
    /\ iter = 0
    /\ refs = <<>>
    /\ slots = <<>>
    /\ saved_error = Running
    /\ inflated = {}
    /\ game_ver = ""
    /\ settings = NoSettings
    /\ assets = NoAssets
    /\ included_files = <<>>
    /\ written = ""
    /\ garbage_dwords = 0
    /\ ToolsIdle

ReadSettings == ReadSettingsLen(SettingsLens, SettingsDecoders)
Garbage == ReadGarbageDwords(GarbageCounts)
ReadVersion == ReadTag(TagValues)
ReadRef == GetAssetRef(FewRecords)
ReadHelp == ReadHelpLen(HelpLens, HelpDecoders)

Next ==
    \/ CheckMz \/ ReadPeHeaderLoc \/ CheckPeSignature \/ ReadSectionCount
    \/ ReadSection \/ FindIcons \/ DecideUpx
    \/ Unpack \/ Check80 \/ Check81 \/ Decrypt80 \/ Decrypt81 \/ SeekValue
    \/ Gm81Decrypt \/ Gm80Check \/ Gm81Check \/ Gm81CheckLazy
    \/ ReadSettings \/ ReadSettingsFields \/ ReadSwapCreationEvents
    \/ ReadDll \/ Gm80Decrypt \/ Garbage \/ SkipGarbage \/ ReadIds
    \/ ReadVersion \/ AssertVer \/ ReadCount \/ ReadItem \/ Rewrap \/ ReadLastIds
    \/ ReadRef \/ SeqStep \/ WorkerStart \/ WorkerFinish \/ Join
    \/ ReadHelp \/ ReadHelpFields \/ Finish

Spec == Init /\ [][Next]_vars

\* from_exe runs on one thread that is never held up, and the pool's workers
\* run: a step that can be taken is taken.
SpecFair == Spec /\ WF_vars(Next)

\* gm8decompiler's main, from the call of decompile to the end of the pass over
\* the broken events.
InitDecompile ==
    /\ ReaderIdle /\ SpriteIdle /\ AudioIdle
    /\ preserve \in BOOLEAN
    /\ fix_events = FALSE
    /\ game_assets = NoGame
    /\ parsed = NoGame
    /\ decompile_pc = "main"

NextDecompile == Decompile \/ FixEvents

SpecDecompile == InitDecompile /\ [][NextDecompile]_vars

\* complete_bbox on every frame of up to MaxSide by MaxSide pixels.
InitSprite ==
    /\ ReaderIdle /\ DecompilerIdle /\ AudioIdle
    /\ frame \in Frames
    /\ collider = NoCollider

NextSprite == CompleteBbox

SpecSprite == InitSprite /\ [][NextSprite]_vars

\* AudioSystem::new(), lines 320-328, then any calls.
InitAudio ==
    /\ ReaderIdle /\ DecompilerIdle /\ SpriteIdle
    /\ audio_assets = <<>>
    /\ next_asset_handle = 0
    /\ current_mp3 = NoHandle
    /\ wave_sinks = {}
    /\ device \in BOOLEAN
    /\ handles = <<>>
    /\ returned = [call |-> "", handle |-> NoHandle]

NextAudio == RegisterMp3 \/ RegisterWav \/ Play

SpecAudio == InitAudio /\ [][NextAudio]_vars

\* The asset sections alone: from the triggers header (line 485) to the end of
\* the included files (line 626), entered with either value of each parameter,
\* on records of every shape.  The version is only handed on to the
\* deserializers.
AssetPhase == RecordSteps \cup {"constants", "last_ids"}
AssetStarts == {8849}
AssetTags == {700, 800}

InitAssets ==
    /\ pc = "triggers"
    /\ stage = "tag"
    /\ strict \in BOOLEAN
    /\ multithread \in BOOLEAN
    /\ result = Running
    /\ pos \in AssetStarts
    /\ budget = MaxRecords
    /\ buf_len = 0
    /\ starts_mz = FALSE
    /\ pe_header_loc = 0
    /\ sig_ok = FALSE
    /\ section_count = 0
    /\ upx0_virtual_len = None
    /\ upx1_data = None
    /\ rsrc_location = None
    /\ upx_data = None
    /\ calls = <<>>
    /\ cfg = NoDecoder
    /\ data = NoDecoder
    /\ got = 0
    /\ count = 0
    /\ iter = 0
    /\ refs = <<>>
    /\ slots = <<>>
    /\ saved_error = Running
    /\ inflated = {}
    /\ game_ver = "8.1"
    /\ settings = [vsync |-> TRUE, force_cpu_render |-> TRUE,
                   zero_uninitialized_vars |-> TRUE, error_on_uninitialized_args |-> FALSE,
                   swap_creation_events |-> FALSE]
    /\ assets = NoAssets
    /\ included_files = <<>>
    /\ written = "gm80::decrypt"
    /\ garbage_dwords = 0
    /\ ToolsIdle

ReadAssetVersion == pc \in AssetPhase /\ ReadTag(AssetTags)
ReadAssetRef == GetAssetRef(Records)

NextAssets ==
    \/ ReadAssetVersion
    \/ pc \in AssetPhase /\ AssertVer
    \/ pc \in AssetPhase /\ ReadCount
    \/ pc \in AssetPhase /\ ReadItem
    \/ ReadLastIds
    \/ ReadAssetRef \/ SeqStep \/ WorkerStart \/ WorkerFinish \/ Join

SpecAssets == InitAssets /\ [][NextAssets]_vars

\* The payload header alone: from the settings block (line 179) to the guid
\* (line 410), entered as find leaves from_exe on a file without antidec, with
\* either version, on settings words of every bit pattern the decode reads.
WideSettingsDecoders == Decoders({0, 1, 2, 128, 129, 131}, {0, 1, 2, 3, 4}, {0, 1})

InitSettings ==
    /\ pc = "settings"
    /\ stage = "len"
    /\ strict \in BOOLEAN
    /\ multithread \in BOOLEAN
    /\ result = Running
    /\ pos \in PayloadStarts
    /\ budget = MaxRecords
    /\ buf_len = 0
    /\ starts_mz = FALSE
    /\ pe_header_loc = 0
    /\ sig_ok = FALSE
    /\ section_count = 0
    /\ upx0_virtual_len = None
    /\ upx1_data = None
    /\ rsrc_location = None
    /\ upx_data = None
    /\ game_ver \in {"8.0", "8.1"}
    /\ calls = <<Call("antidec::check80", "exe", "None"),
                 Call("antidec::check81", "exe", "None"),
                 Call("gm80::check", "exe", IF game_ver = "8.0" THEN "true" ELSE "false")>>
                \o (IF game_ver = "8.0" THEN <<>> ELSE <<Call("gm81::check", "exe", "true")>>)
    /\ cfg = NoDecoder
    /\ data = NoDecoder
    /\ got = 0
    /\ count = 0
    /\ iter = 0
    /\ refs = <<>>
    /\ slots = <<>>
    /\ saved_error = Running
    /\ inflated = {}
    /\ settings = NoSettings
    /\ assets = NoAssets
    /\ included_files = <<>>
    /\ written = ""
    /\ garbage_dwords = 0
    /\ ToolsIdle

ReadWideSettings == ReadSettingsLen(SettingsLens, WideSettingsDecoders)

NextSettings ==
    \/ ReadWideSettings \/ ReadSettingsFields \/ ReadSwapCreationEvents
    \/ ReadDll \/ Gm80Decrypt \/ Garbage \/ SkipGarbage \/ ReadIds

SpecSettings == InitSettings /\ [][NextSettings]_vars

----------------------------------------------------------------------------
(* The properties of the PE inspector, the version tags and the two blocks. *)

ExactlyOneUpx == upx0_virtual_len.some # upx1_data.some

\* C1: whenever exactly one of the sections UPX0 and UPX1 is in the section
\* table, from_exe fails with PartialUPXPacking: it never goes on to the format
\* detection.
C1_PartialUpxFails ==
    (pc = "find" /\ stage = "entry") => ~ExactlyOneUpx

\* The tag the text gives each section: 700 for the extensions and the room
\* order, 500 for the library init strings, 800 for the rest.
TagOf(step) ==
    IF step \in {"extensions", "room_order"} THEN 700
    ELSE IF step = "library_init" THEN 500
    ELSE 800

\* C7: with strict set, a tag that is not the constant of its section, in any
\* of the sixteen sections, makes from_exe return at once
\* AssetError(VersionError) with that constant as expected and the tag as got.
C7_StrictTagMismatchFails ==
    [][(result = Running /\ pc \in TaggedSteps /\ stage = "check" /\ strict
            /\ got # TagOf(pc))
         => result' = [tag |-> "Err", kind |-> "AssetError(VersionError)",
                       expected |-> TagOf(pc), got |-> got]]_vars

\* A strict parse has stopped at the library init strings, whose constant is 500.
C7_Witness ==
    /\ strict
    /\ result.kind = "AssetError(VersionError)"
    /\ result.expected = 500
    /\ result.got = 800

\* C8: with strict clear, the value of a tag changes nothing: whatever was
\* read, the check is followed by the same next step, with the cursor and
\* everything parsed so far as they were, and from_exe never returns a
\* VersionError from a section header.
C8_LaxTagsIgnored ==
    [][(result = Running /\ pc \in TaggedSteps /\ stage = "check" /\ ~strict)
         => /\ result' = Running
            /\ pc' = pc
            /\ stage' = (IF pc = "help_dialog" THEN "len" ELSE "count")
            /\ UNCHANGED <<pos, budget, bundle, refs, slots, inflated>>]_vars

\* A lax parse has gone past a tag that is not the constant of its section.
C8_Witness ==
    /\ ~strict
    /\ result = Running
    /\ pc = "sprites"
    /\ stage = "count"
    /\ got = 500

\* C10: a settings block or a help-dialog block that does not inflate makes
\* from_exe return AssetError(MalformedData), not IO.
C10_CorruptBlockIsMalformed ==
    [][(\/ pc = "settings" /\ stage = "fields" /\ cfg.body = "corrupt"
        \/ pc = "help_dialog" /\ stage = "fields" /\ data.body = "corrupt")
         => result' = MalformedData]_vars

----------------------------------------------------------------------------
(* The properties of the record sections. *)

\* The collect of a section of get_assets ends with Ok in this step.
ListStored == pc \in AssetSteps /\ stage = "map" /\ result' = Running /\ pc' # pc
\* The collect of the included files ends with Ok in this step.
FilesStored == pc = "included_files" /\ stage = "map" /\ result' = Running /\ pc' # pc

\* C2: the list a section gives does not depend on multithread: whenever a
\* section succeeds, with the pool or without, its list is the one the
\* sequential map gives on the same records.
C2_ThreadingAgnostic ==
    [][ListStored
         => LET seq == SeqCollect(refs, game_ver, strict)
            IN  seq.err = Running /\ assets'[pc] = seq.list]_vars

\* The pool has given a section of two records with different values.
C2_Witness ==
    /\ multithread
    /\ "sounds" \in DOMAIN assets
    /\ Len(assets["sounds"]) = 2
    /\ assets["sounds"][1].some
    /\ assets["sounds"][2].some
    /\ assets["sounds"][1] # assets["sounds"][2]

\* C3: with the pool, in whatever order the workers finish, element i of the
\* list is what to_asset gives for the i-th record in the order of the disk.
C3_ListInDiskOrder ==
    [][(multithread /\ pc \in AssetSteps /\ stage = "map")
         => /\ \A i, j \in 1..Len(refs) : i < j => refs[i].at < refs[j].at
            /\ ListStored
                 => /\ Len(assets'[pc]) = Len(refs)
                    /\ \A i \in 1..Len(refs) :
                         assets'[pc][i] = ToAsset(refs[i].bytes, game_ver, strict).val]_vars

\* A worker has finished the second record while the first is still running.
C3_Witness ==
    /\ multithread
    /\ pc \in AssetSteps
    /\ stage = "map"
    /\ Len(slots) = 2
    /\ slots[1].st = "busy"
    /\ slots[2].st = "done"
    /\ slots[2].val.some
    /\ refs[1].bytes # refs[2].bytes

\* C4: the length of each list equals the count read from the header of its
\* section: an absent record takes a slot.
C4_LengthIsCount ==
    [][/\ ListStored => Len(assets'[pc]) = count
       /\ FilesStored => Len(included_files') = count]_vars

\* A section of two records, one of them absent, has given a list of two.
C4_Witness ==
    /\ count = 2
    /\ "paths" \in DOMAIN assets
    /\ pc = "scripts"
    /\ Len(assets["paths"]) = 2
    /\ ~assets["paths"][1].some
    /\ assets["paths"][2].some

\* C5 as stated: in any record section, the included files among them, a
\* record that is the twelve-byte literal is never handed to inflate.
C5_LiteralNeverInflatedAnywhere ==
    (pc \in RecordSteps /\ stage = "map")
        => \A i \in 1..Len(refs) : refs[i].bytes = Sentinel => i \notin inflated

\* C5: in the ten sections read through get_assets, a record that is the
\* twelve-byte literal is never handed to inflate nor to a deserializer, and its
\* slot is absent.
C5_LiteralAbsentInAssetSections ==
    [][(pc \in AssetSteps /\ stage = "map")
         => \A i \in 1..Len(refs) :
              refs[i].bytes = Sentinel
                => /\ i \notin inflated
                   /\ i \notin inflated'
                   /\ slots[i].st = "done" => slots[i].val = None
                   /\ ListStored => assets'[pc][i] = None]_vars

\* The closure has returned for a record that is the literal.
C5_Witness ==
    /\ pc \in AssetSteps
    /\ stage = "map"
    /\ \E i \in 1..Len(refs) : refs[i].bytes = Sentinel /\ slots[i].st = "done"
    /\ \E j \in 1..Len(refs) : j \in inflated

\* A record that is not the literal and inflates far enough to give the flag.
HasFlag(bytes) == bytes # Sentinel /\ Len(bytes.words) > 0

\* C6: for a record that is not the literal and inflates, the slot is absent
\* exactly when the flag is 0 and holds what the deserializer gives for the
\* rest of the stream otherwise; either way the cursor has moved by 4 + length
\* over the record.
C6_FlagDecidesSlot ==
    [][(pc \in AssetSteps /\ stage \in {"loop", "map"})
         => /\ Len(refs') = Len(refs) + 1
                 => /\ refs'[Len(refs')].at = pos + 4
                    /\ pos' = pos + 4 + refs'[Len(refs')].bytes.len
            /\ ListStored
                 => \A i \in 1..Len(refs) :
                      HasFlag(refs[i].bytes)
                        => LET words == refs[i].bytes.words
                           IN  /\ assets'[pc][i] = None <=> words[1] = 0
                               /\ words[1] # 0
                                    => assets'[pc][i]
                                         = Deserialize(Tail(words), game_ver, strict).val]_vars

\* A list holds an absent slot for a flag of 0 and an asset for a flag of 2.
C6_Witness ==
    /\ "fonts" \in DOMAIN assets
    /\ pc = "timelines"
    /\ Len(assets["fonts"]) = 2
    /\ assets["fonts"][1] = None
    /\ assets["fonts"][2] = Some(2, 800)

\* A record that does not inflate far enough to give the flag.
Junk(bytes) == bytes # Sentinel /\ Len(bytes.words) = 0
HasJunk == \E i \in 1..Len(refs) : Junk(refs[i].bytes)
\* The errors to_asset gives for the records of the section.
Failures ==
    {ToAsset(refs[i].bytes, game_ver, strict).err : i \in 1..Len(refs)} \ {Running}

\* C9 as stated: once a section holds a record that does not inflate, from_exe
\* returns AssetError(MalformedData).
C9_JunkIsAlwaysMalformed ==
    [][(pc \in AssetSteps /\ stage \in {"loop", "map"} /\ HasJunk /\ result' # Running)
         => result' = MalformedData]_vars

\* C9: with either value of strict and of multithread, once the records of a
\* section are framed, a record that does not inflate is never an absent slot
\* nor skipped: the section gives no list and from_exe returns the error of a
\* record of the section, which is AssetError(MalformedData) unless another
\* record fails otherwise, and without the pool is the error of the first
\* record that fails.
C9_JunkFailsTheSection ==
    [][(pc \in AssetSteps /\ stage = "map" /\ HasJunk)
         => /\ ~ListStored
            /\ \A i \in 1..Len(refs) :
                 (i \in DOMAIN slots' /\ Junk(refs[i].bytes)) => slots'[i].st # "done"
            /\ result' # Running
                 => /\ result' \in Failures
                    /\ Failures = {MalformedData} => result' = MalformedData
                    /\ ~multithread
                         => result' = SeqCollect(refs, game_ver, strict).err]_vars

\* The collect holds AssetError(MalformedData) for a record that does not inflate,
\* next to a record that is present.
C9_Witness ==
    /\ pc \in AssetSteps
    /\ stage = "map"
    /\ saved_error = MalformedData
    /\ \E i \in 1..Len(refs) : Junk(refs[i].bytes) /\ slots[i].st = "failed"
    /\ \E j \in 1..Len(refs) : slots[j].st = "done" /\ slots[j].val.some

----------------------------------------------------------------------------
(* The properties of the framing, the header and the format detection. *)

\* C11: a length prefix of the settings block or of a record that exceeds the
\* bytes left in the buffer makes from_exe return an error value: reading a
\* length prefix never ends in a panic or an abort.
C11_OversizedLengthIsAnError ==
    [][(\/ pc = "settings" /\ stage = "len"
        \/ pc \in RecordSteps /\ stage = "loop")
         => result'.tag \in {"Running", "Err"}]_vars

\* C12: from_exe returns InvalidExeHeader, no section read, whenever the buffer
\* does not open with "MZ" (a buffer of fewer than two bytes included),
\* whenever the six bytes at the dword of 0x3C do not lie inside the buffer, and
\* whenever they are not the signature.
C12_BadHeaderIsInvalidExeHeader ==
    [][(/\ pc = "header"
        /\ \/ stage = "mz" /\ (buf_len < 2 \/ ~starts_mz)
           \/ stage = "sig" /\ (pe_header_loc + 6 > buf_len \/ ~sig_ok))
         => /\ result' = [tag |-> "Err", kind |-> "InvalidExeHeader", expected |-> 0,
                          got |-> 0]
            /\ section_count = 0
            /\ ~upx0_virtual_len.some /\ ~upx1_data.some /\ ~rsrc_location.some]_vars

\* from_exe has returned InvalidExeHeader.
C12_Witness ==
    /\ pc = "returned"
    /\ result.tag = "Err"
    /\ result.kind = "InvalidExeHeader"

UnknownFormat == [tag |-> "Err", kind |-> "UnknownFormat", expected |-> 0, got |-> 0]
\* find has returned Ok with version v: from_exe is about to read the settings.
FoundVersion(v) == pc = "settings" /\ stage = "len" /\ result = Running /\ game_ver = v
\* UPX is in use: find began by unpacking.
WithUpx == Len(calls) > 0 /\ calls[1].fn = "upx::unpack"
CallsOf(f) == {i \in 1..Len(calls) : calls[i].fn = f}
Fns(cs) == [i \in 1..Len(cs) |-> cs[i].fn]
Rets(cs) == [i \in 1..Len(cs) |-> cs[i].ret]

\* C13: on each of the four antidec paths of find (8.0 and 8.1, with UPX and
\* without), a false from antidec::decrypt is the last thing find does: it
\* returns UnknownFormat, with no skip, no search of the magic and no inner
\* decryption after it.
C13_FailedDecryptEndsFind ==
    \A i \in 1..Len(calls) :
        (calls[i].fn = "antidec::decrypt" /\ calls[i].ret = "false")
            => /\ i = Len(calls)
               /\ pc = "returned"
               /\ result = UnknownFormat

\* With UPX, the decryption after the 8.1 probe has returned false.
C13_Witness ==
    /\ result = UnknownFormat
    /\ Len(calls) = 4
    /\ calls[1].fn = "upx::unpack"
    /\ calls[3].fn = "antidec::check81"
    /\ calls[4].fn = "antidec::decrypt"
    /\ calls[4].ret = "false"

\* C14: the 8.0 probe runs before the 8.1 probe and the first hit wins: the 8.1
\* probe is made only right after the 8.0 probe returned None, a run on which
\* the 8.0 probe hit gives version 8.0 when it gives one, and at most one
\* antidec decryption is applied.
C14_FirstProbeWins ==
    /\ \A i \in CallsOf("antidec::check81") :
         /\ i > 1
         /\ calls[i - 1].fn = "antidec::check80"
         /\ calls[i - 1].ret = "None"
    /\ \A i \in CallsOf("antidec::check80") :
         calls[i].ret = "Some"
            => /\ CallsOf("antidec::check81") = {}
               /\ (pc = "settings" => game_ver = "8.0")
    /\ Cardinality(CallsOf("antidec::check80")) <= 1
    /\ Cardinality(CallsOf("antidec::check81")) <= 1
    /\ Cardinality(CallsOf("antidec::decrypt")) <= 1

\* The 8.0 probe has hit and find has returned 8.0.
C14_Witness ==
    /\ FoundVersion("8.0")
    /\ calls[1].fn = "antidec::check80"
    /\ calls[1].ret = "Some"
    /\ calls[2].fn = "antidec::decrypt"

\* C15: with UPX, both antidec probes are handed the unpacked buffer and
\* nothing else is: antidec::decrypt, the search of 0xF7140067, the inner 8.1
\* decryption and the skips work on the cursor over the original file.
C15_UnpackedIsProbedOnly ==
    WithUpx
        => \A i \in 2..Len(calls) :
             calls[i].on = (IF calls[i].fn \in {"antidec::check80", "antidec::check81"}
                            THEN "unpacked"
                            ELSE "exe")

\* With UPX, find has returned 8.1 after both probes and the decryptions.
C15_Witness ==
    /\ FoundVersion("8.1")
    /\ WithUpx
    /\ Len(calls) = 7

\* C16: a payload without antidec parses the same packed with UPX as not
\* packed: when UPX is in use and neither probe hits, find does not give up
\* there with UnknownFormat (without UPX it goes on to the gm80 / gm81 header
\* checks and returns their version).
C16_UpxPlainPayloadIsDetected ==
    ~(/\ WithUpx
      /\ Len(calls) = 3
      /\ calls[2] = [fn |-> "antidec::check80", on |-> "unpacked", ret |-> "None"]
      /\ calls[3] = [fn |-> "antidec::check81", on |-> "unpacked", ret |-> "None"]
      /\ result = UnknownFormat)

\* Neither antidec probe hit, on the original file.
Plain ==
    /\ Len(calls) >= 3
    /\ calls[1] = [fn |-> "antidec::check80", on |-> "exe", ret |-> "None"]
    /\ calls[2] = [fn |-> "antidec::check81", on |-> "exe", ret |-> "None"]

\* C17: without UPX and without an antidec hit, find tries gm80::check, then
\* gm81::check, then gm81::check_lazy, stops at the first that succeeds and
\* returns its version: 8.0 for the first, 8.1 for the other two, and
\* UnknownFormat when all three fail.
C17_HeaderChecksInOrder ==
    Plain
        => LET checks == SubSeq(calls, 3, Len(calls))
               order == <<"gm80::check", "gm81::check", "gm81::check_lazy">>
           IN  /\ Fns(checks) = SubSeq(order, 1, Len(checks))
               /\ \A i \in 1..Len(checks) : checks[i].on = "exe"
               /\ (pc # "find" /\ checks[Len(checks)].ret # "Err")
                    => \/ Rets(checks) = <<"true">> /\ FoundVersion("8.0")
                       \/ Rets(checks) = <<"false", "true">> /\ FoundVersion("8.1")
                       \/ Rets(checks) = <<"false", "false", "true">> /\ FoundVersion("8.1")
                       \/ /\ Rets(checks) = <<"false", "false", "false">>
                          /\ pc = "returned"
                          /\ result = UnknownFormat
               /\ pc = "find" => \A i \in 1..Len(checks) : checks[i].ret = "false"

\* gm81::check_lazy alone has succeeded and find has returned 8.1.
C17_Witness ==
    /\ FoundVersion("8.1")
    /\ Plain
    /\ Len(calls) = 5
    /\ calls[5] = [fn |-> "gm81::check_lazy", on |-> "exe", ret |-> "true"]

----------------------------------------------------------------------------
(* The properties of the payload reader. *)

\* The payload steps in the order the text gives them; the pro flag, the game
\* id and the guid are the step "ids".
PayloadOrder ==
    <<"settings", "dll", "gm80_decrypt", "garbage", "ids", "extensions", "triggers",
      "constants", "sounds", "sprites", "backgrounds", "paths", "scripts", "fonts",
      "timelines", "objects", "rooms", "last_ids", "included_files", "help_dialog",
      "library_init", "room_order">>
\* The place of a step in that order; the rebuilding of the cursor belongs to
\* the end of the extensions, the last line of from_exe comes after everything.
Rank(p) ==
    CASE p = "rewrap" -> 6
      [] p = "done" -> Len(PayloadOrder) + 1
      [] OTHER -> CHOOSE i \in 1..Len(PayloadOrder) : PayloadOrder[i] = p
InPayload(p) == p \in {"rewrap", "done"} \/ \E i \in 1..Len(PayloadOrder) : PayloadOrder[i] = p

\* C18: on a run that succeeds the payload steps happen once each, in the order
\* settings, DLL, 8.0 decrypt, garbage skip, pro flag / game id / guid,
\* extensions, triggers, constants, sounds, sprites, backgrounds, paths,
\* scripts, fonts, timelines, objects, rooms, last ids, included files, help
\* dialog, library init strings, room order: from_exe only ever moves from a
\* step to the next one, with the cursor where the step left it and no closure
\* of the step still running, and returns Ok only after the last.
C18_PayloadStepsInOrder ==
    [][/\ (InPayload(pc) /\ result' = Running)
            => /\ InPayload(pc')
               /\ Rank(pc') \in {Rank(pc), Rank(pc) + 1}
               /\ pc = "rewrap" => pc' # "extensions"
               /\ pos' >= pos
               /\ pc' # pc => \A i \in 1..Len(slots) : slots[i].st = "done"
       /\ result'.tag = "Ok" => pc = "done"
       /\ (pc' = "settings" /\ pc # "settings") => pc = "find"]_vars

\* from_exe has returned Ok.
C18_Witness ==
    /\ pc = "returned"
    /\ result.tag = "Ok"
    /\ game_ver \in {"8.0", "8.1"}

\* Bit n of the word x.
Bit(x, n) == (x \div (2 ^ n)) % 2 = 1

\* C19: for 8.1, vsync and force_cpu_render are bits 0 and 7 of one word and
\* zero_uninitialized_vars and error_on_uninitialized_args bits 0 and 1 of
\* another; for 8.0 the first of each pair is (word # 0) and the second is
\* fixed: force_cpu_render true, error_on_uninitialized_args false.
C19_SettingsBits ==
    [][(pc = "settings" /\ stage = "fields" /\ stage' = "trailer")
         => IF game_ver = "8.1"
            THEN /\ settings'.vsync = Bit(cfg.x, 0)
                 /\ settings'.force_cpu_render = Bit(cfg.x, 7)
                 /\ settings'.zero_uninitialized_vars = Bit(cfg.y, 0)
                 /\ settings'.error_on_uninitialized_args = Bit(cfg.y, 1)
            ELSE /\ game_ver = "8.0"
                 /\ settings'.vsync = (cfg.x # 0)
                 /\ settings'.force_cpu_render = TRUE
                 /\ settings'.zero_uninitialized_vars = (cfg.y # 0)
                 /\ settings'.error_on_uninitialized_args = FALSE]_vars

\* An 8.1 block with the words 128 and 2 has been decoded.
C19_Witness ==
    /\ pc = "settings"
    /\ stage = "trailer"
    /\ game_ver = "8.1"
    /\ cfg.x = 128
    /\ cfg.y = 2
    /\ ~settings.vsync
    /\ settings.force_cpu_render
    /\ ~settings.zero_uninitialized_vars
    /\ settings.error_on_uninitialized_args

\* C20: whenever the settings stream ends after zero_uninitialized_vars, before
\* the swap_creation_events flag has been read, be it before the word that
\* precedes the flag or after it, the settings are read with
\* swap_creation_events false and no error is returned.
C20_ShortTrailerIsFalse ==
    [][(pc = "settings" /\ stage = "trailer" /\ cfg.trailer \in {"eof", "webgl"})
         => /\ result' = Running
            /\ settings'.swap_creation_events = FALSE]_vars

----------------------------------------------------------------------------
(* The properties of from_exe as a whole: how it ends, and what runs when. *)

\* C21: a section that fails while its records are framed or deserialized ends
\* from_exe in Err, with no GameAssets value: whatever makes the section fail
\* is returned as a ReaderError, and the lists built so far are dropped.
C21_FailureIsReturnedAsErr ==
    [][(pc \in RecordSteps /\ stage \in {"loop", "map"} /\ result' # Running)
         => /\ result'.tag = "Err"
            /\ assets' = NoAssets /\ included_files' = <<>>]_vars

\* A closure of a worker is running.
InFlight == \E i \in 1..Len(slots) : slots[i].st = "busy"

\* C22: the sections are fork-join: while a closure of a worker runs, from_exe
\* stays in the collect of the same section, the cursor does not move and
\* from_exe does not return; so the tag of the next section is read only after
\* every worker of this one has finished, and only from_exe's own thread
\* advances the cursor.
C22_ForkJoin ==
    [][InFlight => /\ pc' = pc /\ stage' = "map"
                   /\ pos' = pos /\ refs' = refs
                   /\ result' = Running]_vars

\* Two workers run at once in a section that follows a finished one.
C22_Witness ==
    /\ multithread /\ pc = "sounds" /\ stage = "map"
    /\ "triggers" \in DOMAIN assets
    /\ Len(slots) = 2 /\ slots[1].st = "busy" /\ slots[2].st = "busy"

\* The steps of from_exe from the triggers section on.
FromTriggers == {StepOrder[i] : i \in IndexOf("triggers")..Len(StepOrder)}

\* The slices of the section that is being read lie one after the other in
\* the buffer.
SlicesDisjoint ==
    \A i, j \in 1..Len(refs) :
        i < j => refs[i].at + refs[i].bytes.len <= refs[j].at

\* C23: every pass that writes into the executable's bytes (antidec, the 8.1
\* inner decryption, the 8.0 decryption) has run before the triggers section:
\* from there to the end of from_exe no step writes into the buffer, and the
\* slices get_asset_refs hands out for one section do not overlap.
C23_BufferFrozenFromTriggers ==
    /\ [](pc \in FromTriggers => written = "gm80::decrypt" /\ SlicesDisjoint)
    /\ [][(pc \in FromTriggers /\ result' = Running) => written' = written]_vars

\* Two workers hold slices of one section of a file that find has decrypted.
C23_Witness ==
    /\ pc \in AssetSteps /\ stage = "map" /\ multithread
    /\ written = "gm80::decrypt"
    /\ Len(refs) = 2 /\ refs[1].bytes.len > 0 /\ refs[2].bytes.len > 0
    /\ slots[1].st = "busy" /\ slots[2].st = "busy"

\* The calls find makes after the 8.1 probe has hit, in the order of the code.
AntidecPath81 == <<"antidec::decrypt", "gm81::seek_value", "gm81::decrypt", "seek">>

\* C24: after a hit of the 8.1 antidec probe find calls antidec::decrypt, then
\* searches 0xF7140067, then calls gm81::decrypt with XorMethod::Normal, then
\* skips 20 bytes and returns 8.1, in that order and with nothing in between;
\* when the search ends without a match, find returns UnknownFormat and has not
\* called gm81::decrypt.  find never calls gm81::decrypt with another method.
C24_Antidec81InOrder ==
    /\ \A i \in CallsOf("antidec::check81") :
         calls[i].ret = "Some"
            => LET after == SubSeq(calls, i + 1, Len(calls))
               IN  /\ Len(after) <= Len(AntidecPath81)
                   /\ Fns(after) = SubSeq(AntidecPath81, 1, Len(after))
                   /\ (pc = "settings"
                         => /\ Len(after) = Len(AntidecPath81)
                            /\ after[4].ret = "20"
                            /\ game_ver = "8.1")
    /\ \A i \in CallsOf("gm81::seek_value") :
         calls[i].ret = "None"
            => /\ i = Len(calls)
               /\ result = UnknownFormat
               /\ CallsOf("gm81::decrypt") = {}
    /\ \A i \in CallsOf("gm81::decrypt") :
         /\ calls[i].method = "Normal"
         /\ calls[i - 1].fn = "gm81::seek_value"
         /\ calls[i - 1].ret = "Some"

\* Without UPX, find has returned 8.1 through the antidec path.
C24_Witness ==
    /\ FoundVersion("8.1")
    /\ Fns(calls) = <<"antidec::check80", "antidec::check81">> \o AntidecPath81
    /\ calls[5].method = "Normal"

\* C25: the garbage step leaves the cursor 4 + 4 * n bytes past where the count
\* n was read, for every u32 n: the read of the count takes the 4, and the
\* seek that follows moves the cursor by the product n * 4 itself (stated on
\* dwords: the distance is a multiple of 4 and a quarter of it is n).
C25_SkipIsTheProduct ==
    [][(pc = "garbage" /\ stage = "seek")
         => /\ result' = Running
            /\ (pos' - pos) % 4 = 0
            /\ (pos' - pos) \div 4 = garbage_dwords]_vars

\* The collect of a section of get_assets ends with an Err in this step.
SectionFails == pc \in AssetSteps /\ stage = "map" /\ result' # Running

\* C28 as stated: a section in which records fail gives the same error with
\* the pool as without it: the error of the first failing record in the order
\* of the file, whatever the order in which the workers run.
C28_ParallelErrorIsTheFirst ==
    [][(SectionFails /\ multithread)
         => result' = SeqCollect(refs, game_ver, strict).err]_vars

\* C28: a section fails with the pool only on records on which it fails
\* without it, and the error returned is the error of one of its failing
\* records; without the pool it is the error of the first failing record.
C28_ErrorIsOfAFailingRecord ==
    [][SectionFails
         => LET seq == SeqCollect(refs, game_ver, strict)
            IN  /\ seq.err # Running
                /\ \E i \in 1..Len(refs) :
                     ToAsset(refs[i].bytes, game_ver, strict).err = result'
                /\ (~multithread => result' = seq.err)]_vars

\* Both records of a section have failed, and the error the pool has stored is
\* the second record's, which is not the first record's.
C28_Witness ==
    /\ multithread /\ pc \in AssetSteps /\ stage = "map"
    /\ Len(refs) = 2
    /\ slots[1].st = "failed" /\ slots[2].st = "failed"
    /\ saved_error = ToAsset(refs[2].bytes, game_ver, strict).err
    /\ saved_error # ToAsset(refs[1].bytes, game_ver, strict).err

\* from_exe is about to run one more iteration of a loop over a count it read.
LoopIterates ==
    \/ pc = "sections" /\ section_count > 0
    \/ pc \in ItemSteps \cup RecordSteps /\ stage = "loop" /\ iter < count

----------------------------------------------------------------------------
(* The properties of the decompiler's pass, of make_bbox and of the handles. *)

\* A broken event, as fix_event tells it: a code block (7) that executes code (2).
IsBroken(ev) == ev.action_kind = 7 /\ ev.execution_type = 2

\* `after` is `before` with every broken action given id 603 and lib_id 1 and
\* nothing else changed.
FixedFrom(before, after) ==
    /\ Len(after) = Len(before)
    /\ \A k \in 1..Len(before) :
         /\ after[k].action_kind = before[k].action_kind
         /\ after[k].execution_type = before[k].execution_type
         /\ IF IsBroken(before[k])
            THEN after[k].id = 603 /\ after[k].lib_id = 1
            ELSE after[k] = before[k]

\* C26: after the pass over the broken events, run without --preserve, every
\* CodeAction of a present object's events and of a present timeline's moments
\* with action_kind 7 and execution_type 2 has id 603 and lib_id 1, and every
\* other action, every other field and the rest of the assets are as from_exe
\* returned them; with --preserve nothing is modified; and the pass applied to
\* its own result changes nothing.
C26_FixPass ==
    decompile_pc = "write"
        => /\ fix_events = ~preserve
           /\ IF preserve
              THEN game_assets = parsed
              ELSE /\ FixedFrom(ObjectActions(parsed), ObjectActions(game_assets))
                   /\ FixedFrom(MomentActions(parsed), MomentActions(game_assets))
                   /\ game_assets =
                        Game(ObjectActions(game_assets), MomentActions(game_assets))
                   /\ FixPass(game_assets) = game_assets

\* The pass has rewritten a broken action of an object and left alone a code
\* block that does not execute code.
C26_Witness ==
    /\ decompile_pc = "write" /\ ~preserve
    /\ Len(ObjectActions(parsed)) = 2
    /\ IsBroken(ObjectActions(parsed)[1])
    /\ ObjectActions(parsed)[1].id = 5
    /\ ObjectActions(game_assets)[1].id = 603
    /\ ObjectActions(parsed)[2].action_kind = 7
    /\ ObjectActions(parsed)[2].execution_type = 1
    /\ ObjectActions(game_assets)[2].id = 5

\* The pixels of the frame that collide.
Colliding == {p \in (0..(frame.width - 1)) \X (0..(frame.height - 1)) : Coll(frame, p[1], p[2])}

\* C27: for a frame of at least one pixel, complete_bbox gives the tight
\* bounding box of the colliding pixels: left and right the least and the
\* greatest x, top and bottom the least and the greatest y; and for a mask
\* with no colliding pixel left = width - 1, right = 0, top = height - 1,
\* bottom = 0.
C27_TightBbox ==
    collider # NoCollider
        => /\ collider.width = frame.width /\ collider.height = frame.height
           /\ collider.data = frame.data
           /\ IF Colliding = {}
              THEN /\ collider.bbox_left = frame.width - 1
                   /\ collider.bbox_right = 0
                   /\ collider.bbox_top = frame.height - 1
                   /\ collider.bbox_bottom = 0
              ELSE /\ collider.bbox_left = Least({p[1] : p \in Colliding})
                   /\ collider.bbox_right = Greatest({p[1] : p \in Colliding})
                   /\ collider.bbox_top = Least({p[2] : p \in Colliding})
                   /\ collider.bbox_bottom = Greatest({p[2] : p \in Colliding})

\* A box whose top is not in its leftmost column and whose bottom is not in
\* its rightmost column.
C27_Witness ==
    /\ collider # NoCollider
    /\ collider.bbox_left < collider.bbox_right
    /\ collider.bbox_top < collider.bbox_bottom
    /\ ~Coll(frame, collider.bbox_left, collider.bbox_top)
    /\ ~Coll(frame, collider.bbox_right, collider.bbox_bottom)

\* C29: on an AudioSystem, after any calls of register_mp3, register_wav and
\* play, the handles the registrations returned are 0, 1, 2, ... in the order
\* of the calls (so distinct and increasing), the keys of the asset map are
\* 0 .. next_asset_handle - 1, next_asset_handle is the number of successful
\* registrations, and a call that returns no handle (a failed registration, a
\* play) changes neither the asset map nor next_asset_handle.
C29_HandlesAreCounted ==
    /\ [](/\ handles = [k \in 1..Len(handles) |-> k - 1]
          /\ DOMAIN audio_assets = 0..(next_asset_handle - 1)
          /\ next_asset_handle = Len(handles))
    /\ [][returned'.handle = NoHandle
            => /\ audio_assets' = audio_assets
               /\ next_asset_handle' = next_asset_handle
               /\ handles' = handles]_vars

\* Two sounds are registered, one of them is playing, and a third
\* registration has just failed.
C29_Witness ==
    /\ next_asset_handle = 2
    /\ handles = <<0, 1>>
    /\ current_mp3 # NoHandle
    /\ returned = [call |-> "register", handle |-> NoHandle]

====
